---- MODULE Spec2Model ----
(***************************************************************************)
(* Verification model of the sponsored-swap orchestration engine           *)
(* (eternaut1/swapper): SwapOrchestrator (prepare / execute / monitor),    *)
(* FeeCalculator, FeeValidator, TransactionBuilder.validateNoFundLeak,     *)
(* SwapRepository and ProviderRegistry.getAggregatedQuotes.                *)
(*                                                                         *)
(* Conventions                                                             *)
(*  - An async handler is split at its awaits: one action per segment      *)
(*    that runs without yielding to the event loop.                        *)
(*  - JavaScript numbers are modelled as exact quantities: lamports,       *)
(*    micro-USD (1e-6 USD, the USDC base unit) and whole-dollar prices.    *)
(*  - Wall-clock time is the variable now, in seconds.                     *)
(***************************************************************************)
EXTENDS Integers, Sequences, FiniteSets, TLC

(***************************************************************************)
(* Bounds of the model                                                     *)
(***************************************************************************)
\* number of swap ids prepareSwap may generate in one run
MaxSwaps == 2
\* number of executeSwap calls in one run
MaxCalls == 2
\* the clock stops at MaxTime seconds and advances by TickSeconds
MaxTime == 60
TickSeconds == 30
\* the clock bound while prepareSwap runs against a moving price
PrepMaxTime == 120
\* monitoring: timer callbacks per monitor, and callbacks awaiting at once
MaxPolls == 4
MaxInFlight == 2
\* the same two bounds where monitors run beside concurrent executeSwap calls
SwapMaxPolls == 1
SwapMaxInFlight == 1
\* MONITOR_MAX_ATTEMPTS is 60 in the source (constants.ts); scaled down
MaxQuotes == 3
MaxTxAccounts == 2
MaxTxInstructions == 3
MaxWireSigs == 2
MaxPrioritySteps == 50
MaxDriftUnits == 50
PriorityFeeStep == 1000
MaxWireAccounts == 2
MONITOR_MAX_ATTEMPTS == 2

(***************************************************************************)
(* Program constants                                                       *)
(***************************************************************************)
QUOTE_EXPIRY_SECONDS == 30
PRICE_CACHE_TTL == 60000
LAMPORTS_PER_SOL == 1000000000
SOLANA_BASE_FEE_LAMPORTS == 5000
DEBRIDGE_ORDER_RENT_LAMPORTS == 18000000
\* FEE_VOLATILITY_BUFFER = 0.15, as a percentage
FEE_VOLATILITY_BUFFER_PCT == 15
\* USDC has 6 decimals: base units per USD
USDC_UNITS == 1000000
PLATFORM_FEE_BPS == 0
\* MAX_QUOTE_DRIFT = 0.02, as a percentage
MAX_QUOTE_DRIFT_PCT == 2
RENT_EXEMPT_LAMPORTS == 2039280
\* maxSize in validateTransactionSize: the Solana packet limit, bytes
MAX_TRANSACTION_SIZE == 1232
\* maxReasonableCost = 0.1 SOL, in lamports
MaxReasonableCostLamports == 100000000

None == "none"

SwapIds == 1..MaxSwaps
\* an id no prepareSwap call ever generated
UnknownId == MaxSwaps + 1
Calls == 1..MaxCalls

\* SOL/USD prices the oracle may publish (inside the 10..1000 sanity band)
Prices == {135, 150}
\* median recent prioritization fee, in lamports (getRecentPriorityFee)
PriorityFees == {0, 10000}
ProviderNames == {"relay", "debridge"}
FeeTokens == {"USDC", "SOL"}

(***************************************************************************)
(* Addresses and serialized transactions                                   *)
(* A transaction is what the decoders yield: whether the bytes decode,     *)
(* the static account list (index 0 = fee payer) and, per instruction,     *)
(* its programAddressIndex (0-based, as in the wire format).               *)
(***************************************************************************)
SPONSOR == "sponsor"
USER == "user"
SYSTEM_PROGRAM_ADDRESS == "SystemProgram"
TOKEN_PROGRAM_ADDRESS == "TokenProgram"
TOKEN_2022_PROGRAM_ADDRESS == "Token2022Program"
ASSOCIATED_TOKEN_PROGRAM_ADDRESS == "AssociatedTokenProgram"
BRIDGE_PROGRAM == "BridgeProgram"

Tx(decodes, accounts, ixs) ==
  [decodes |-> decodes, staticAccounts |-> accounts, instructions |-> ixs]

\* JavaScript Map: has / set / delete on a function with a finite domain
Has(map, k) == k \in DOMAIN map
MapSet(map, k, v) == [x \in DOMAIN map \cup {k} |-> IF x = k THEN v ELSE map[x]]
MapDelete(map, k) == [x \in DOMAIN map \ {k} |-> map[x]]
EmptyMap == [x \in {} |-> 0]

\* staticAccounts[i] of the source (0-based); None when out of range
AccountAt(tx, i) ==
  IF i + 1 \in 1..Len(tx.staticAccounts) THEN tx.staticAccounts[i + 1] ELSE None

(***************************************************************************)
(* TransactionBuilder                                                      *)
(***************************************************************************)
RECURSIVE Dedup(_)
\* the distinct elements of a sequence, in order of first appearance
Dedup(s) ==
  IF s = <<>> THEN <<>>
  ELSE LET rest == Dedup(SubSeq(s, 1, Len(s) - 1))
           x == s[Len(s)]
       IN IF \E i \in 1..Len(rest) : rest[i] = x THEN rest ELSE Append(rest, x)

IndexOf(s, x) == CHOOSE i \in 1..Len(s) : s[i] = x

\* the program address of every instruction (decompileTransactionMessage)
DecompiledPrograms(tx) ==
  [i \in 1..Len(tx.instructions) |-> AccountAt(tx, tx.instructions[i])]

\* compile a message: fee payer at static account 0, then the other signer,
\* then the programs; instructions refer to programs by account index
CompileMessage(feePayer, programs) ==
  LET accounts == Dedup(<<feePayer, USER>> \o programs)
  IN Tx(TRUE, accounts,
        [i \in 1..Len(programs) |-> IndexOf(accounts, programs[i]) - 1])

\* provider.buildTransaction: the user is fee payer, bridge instructions only
ProviderTx == CompileMessage(USER, <<BRIDGE_PROGRAM>>)

\* createFeeTransferInstructions: SOL = one system transfer; USDC = idempotent
\* ATA creation followed by the token transfer
createFeeTransferInstructions(feeToken) ==
  IF feeToken = "SOL" THEN <<SYSTEM_PROGRAM_ADDRESS>>
  ELSE <<ASSOCIATED_TOKEN_PROGRAM_ADDRESS, TOKEN_PROGRAM_ADDRESS>>

\* wire sizes used by replaceBlockhash
SIGNATURE_BYTES == 64
ADDRESS_BYTES == 32
BLOCKHASH_BYTES == 32
HEADER_BYTES == 3
V0_PREFIX == 128

Repeat(b, n) == [i \in 1..n |-> b]

\* blockhashes as the RPC and the message decoder give them (base58 strings)
Blockhashes ==
  {"11111111111111111111111111111111",
   "US517G5965aydkZ46HS38QLi7UQiSojurfbQfKCELFx",
   "4wBqpZM9xaSheZzJSMawUKKwhdpChKbZ5eu5ky4Vigw"}

\* bs58.decode on those strings: the 32 bytes each one stands for
bs58Decode(str) ==
  IF str = "11111111111111111111111111111111" THEN Repeat(0, BLOCKHASH_BYTES)
  ELSE IF str = "US517G5965aydkZ46HS38QLi7UQiSojurfbQfKCELFx"
       THEN Repeat(7, BLOCKHASH_BYTES)
       ELSE [i \in 1..BLOCKHASH_BYTES |-> i]

\* byte length of a compact-u16 count, as replaceBlockhash computes it
CompactU16Len(n) == IF n < 128 THEN 1 ELSE IF n < 16384 THEN 2 ELSE 3

\* txBytes.slice(from, to) with 0-based offsets, clamped to the array
Slice(bytes, from, to) ==
  LET lo == IF from < Len(bytes) THEN from ELSE Len(bytes)
      hi == IF to < Len(bytes) THEN to ELSE Len(bytes)
  IN [i \in 1..(hi - lo) |-> bytes[lo + i]]

\* txBytes[i] (0-based); reading past the end gives undefined, whose & 0x80 is 0
ByteAt(bytes, i) == IF i + 1 \in 1..Len(bytes) THEN bytes[i + 1] ELSE 0

\* the offset replaceBlockhash computes from the decoded signature count, the
\* version bit of the first message byte and the decoded account count
blockhashOffset(txBytes, numSigs, numAccounts) ==
  LET msgStart == CompactU16Len(numSigs) + numSigs * SIGNATURE_BYTES
      isV0 == (ByteAt(txBytes, msgStart) \div V0_PREFIX) % 2 # 0
      prefixLen == IF isV0 THEN 1 ELSE 0
  IN msgStart + prefixLen + HEADER_BYTES + CompactU16Len(numAccounts)
       + numAccounts * ADDRESS_BYTES

\* new Uint8Array(txBytes) with newBytes set at the offset
SetBytes(txBytes, newBytes, offset) ==
  [i \in 1..Len(txBytes) |->
     IF i - offset \in 1..Len(newBytes) THEN newBytes[i - offset] ELSE txBytes[i]]

\* the part of replaceBlockhash after the offset is known: the sanity check
\* (every() over the slice), then the copy; set() past the end is a RangeError
ReplaceAt(txBytes, oldBytes, newBytes, offset, existing) ==
  IF \E i \in 1..Len(existing) : existing[i] # oldBytes[i]
  THEN [threw |-> TRUE, error |-> "Blockhash offset mismatch", input |-> txBytes]
  ELSE IF offset + Len(newBytes) > Len(txBytes)
       THEN [threw |-> TRUE, error |-> "RangeError", input |-> txBytes]
       ELSE [threw |-> FALSE, result |-> SetBytes(txBytes, newBytes, offset),
             input |-> txBytes]

\* variant: the sanity check before overwriting is left out
replaceBlockhashAt_Unchecked(txBytes, decoded, blockhash, offset) ==
  IF decoded.lifetimeToken = blockhash
  THEN [threw |-> FALSE, result |-> txBytes, input |-> txBytes]
  ELSE ReplaceAt(txBytes, bs58Decode(decoded.lifetimeToken), bs58Decode(blockhash),
                 offset, <<>>)

replaceBlockhashAt(txBytes, decoded, blockhash, offset) ==
  IF decoded.lifetimeToken = blockhash
  THEN [threw |-> FALSE, result |-> txBytes, input |-> txBytes]
  ELSE ReplaceAt(txBytes, bs58Decode(decoded.lifetimeToken), bs58Decode(blockhash),
                 offset, Slice(txBytes, offset, offset + BLOCKHASH_BYTES))

\* replaceBlockhash(txBytes) given what the decoders yielded for txBytes and
\* the blockhash the RPC returned; input is the caller's array afterwards
replaceBlockhash(txBytes, decoded, blockhash) ==
  replaceBlockhashAt(txBytes, decoded, blockhash,
    blockhashOffset(txBytes, decoded.numSigs, decoded.numAccounts))

\* buildSponsoredTransaction: [fee instructions] + [bridge instructions] in a
\* new message whose fee payer is the sponsor
buildSponsoredTransaction(bridgeInstructions, feeToken) ==
  CompileMessage(SPONSOR,
    createFeeTransferInstructions(feeToken) \o bridgeInstructions)

\* variant: the bridge instructions are put before the fee instructions
addFeeTransferToTransaction_BridgeFirst(providerTx, feeToken, solAdvanceLamports) ==
  LET prefixInstructions ==
        IF solAdvanceLamports > 0 THEN <<SYSTEM_PROGRAM_ADDRESS>> ELSE <<>>
  IN CompileMessage(SPONSOR,
       prefixInstructions \o DecompiledPrograms(providerTx)
         \o createFeeTransferInstructions(feeToken))

\* [SOL advance] + [fee instructions] + [bridge instructions], sponsor pays
addFeeTransferToTransaction(providerTx, feeToken, solAdvanceLamports) ==
  LET prefixInstructions ==
        IF solAdvanceLamports > 0 THEN <<SYSTEM_PROGRAM_ADDRESS>> ELSE <<>>
  IN CompileMessage(SPONSOR,
       prefixInstructions \o createFeeTransferInstructions(feeToken)
         \o DecompiledPrograms(providerTx))

\* variant: idempotent account creation is not taken as fee-related
FeePrograms_NoAta ==
  {SYSTEM_PROGRAM_ADDRESS, TOKEN_PROGRAM_ADDRESS, TOKEN_2022_PROGRAM_ADDRESS}

FeePrograms ==
  {SYSTEM_PROGRAM_ADDRESS, TOKEN_PROGRAM_ADDRESS, TOKEN_2022_PROGRAM_ADDRESS,
   ASSOCIATED_TOKEN_PROGRAM_ADDRESS}

\* the errors validateNoFundLeak collects; sponsorAddress = None when omitted
NoFundLeakErrors(tx, sponsorAddress) ==
  IF ~tx.decodes THEN {"Validation error"}
  ELSE
    LET payerErr ==
          IF sponsorAddress # None /\ AccountAt(tx, 0) # sponsorAddress
          THEN {"Sponsor is not the fee payer"} ELSE {}
        countErr ==
          IF Len(tx.instructions) < 2
          THEN {"Transaction must have at least 2 instructions"} ELSE {}
    IN IF Len(tx.instructions) = 0
       THEN payerErr \cup countErr \cup {"Transaction has no instructions"}
       ELSE LET programId == AccountAt(tx, tx.instructions[1])
            IN IF programId = None
               THEN payerErr \cup countErr \cup {"Cannot find program ID"}
               ELSE payerErr \cup countErr \cup
                    (IF programId \notin FeePrograms
                     THEN {"First instruction must be fee-related"} ELSE {})

\* variant: the fee-payer check is left out
validateNoFundLeak_NoPayerCheck(tx, sponsorAddress) ==
  NoFundLeakErrors(tx, None) = {}

validateNoFundLeak(tx, sponsorAddress) == NoFundLeakErrors(tx, sponsorAddress) = {}

(***************************************************************************)
(* FeeValidator.validateTransactionStructure(compiledInstructions,         *)
(* staticAccountKeys): the instructions and account keys of tx             *)
(***************************************************************************)
validateTransactionStructure(tx) ==
  LET countErr ==
        IF Len(tx.instructions) < 2
        THEN {"Transaction must have at least 2 instructions"} ELSE {}
  IN IF Len(tx.instructions) = 0
     THEN [valid |-> FALSE, errors |-> countErr]
     ELSE LET programId == AccountAt(tx, tx.instructions[1])
          IN IF programId = None
             THEN [valid |-> FALSE,
                   errors |-> countErr \cup
                     {"Cannot resolve program ID for first instruction"}]
             ELSE IF programId \notin {SYSTEM_PROGRAM_ADDRESS, TOKEN_PROGRAM_ADDRESS,
                                       TOKEN_2022_PROGRAM_ADDRESS}
                  THEN [valid |-> FALSE,
                        errors |-> countErr \cup
                          {"First instruction must be fee transfer"}]
                  ELSE [valid |-> countErr = {}, errors |-> countErr]

\* the base64 payloads a caller may hand to executeSwap
GarbageTx == Tx(FALSE, <<>>, <<>>)
UserPaysTx == CompileMessage(USER, <<TOKEN_PROGRAM_ADDRESS, BRIDGE_PROGRAM>>)
SignedTxs ==
  {addFeeTransferToTransaction(ProviderTx, "USDC", 0), UserPaysTx, GarbageTx}

(***************************************************************************)
(* FeeCalculator                                                           *)
(***************************************************************************)
CeilDiv(a, b) == (a + b - 1) \div b

\* lamports per micro-USD-unit of SOL: cost/1e9 SOL * price USD * 1e6
LamportsPerUnit == LAMPORTS_PER_SOL \div USDC_UNITS

\* costUsd * (1 + buffer) in micro-USD, as the least whole number of micro-USD
\* that is not below it: ceil(cost * price * (100 + pct) / (100 * 1000)).
\* The product is split so that every intermediate stays below 2^31.
BufferedCostMicroUsd(costLamports, solPriceUsd, bufferPct) ==
  LET den == 100 * LamportsPerUnit
      mul == solPriceUsd * (100 + bufferPct)
  IN (costLamports \div den) * mul + CeilDiv((costLamports % den) * mul, den)

\* calculateMinimumFee(costs).feeInUsdc, in micro-USD: the buffered cost
\* rounded UP to 6 decimals (PLATFORM_FEE_BPS = 0: multiplier 1)
calculateMinimumFeeUsdc(costLamports, solPriceUsd) ==
  BufferedCostMicroUsd(costLamports, solPriceUsd, FEE_VOLATILITY_BUFFER_PCT)

\* variant: the volatility buffer is left out of the required minimum
validateFeeCoverage_NoBuffer(feeMicroUsd, costLamports, cachedPrice) ==
  /\ cachedPrice # 0
  /\ feeMicroUsd >= BufferedCostMicroUsd(costLamports, cachedPrice, 0)

\* validateFeeCoverage: feeValueUsd >= costUsd * (1 + FEE_VOLATILITY_BUFFER);
\* false when no price is cached (getCachedSolPrice throws, caught)
validateFeeCoverage(feeMicroUsd, costLamports, cachedPrice) ==
  /\ cachedPrice # 0
  /\ feeMicroUsd >=
       BufferedCostMicroUsd(costLamports, cachedPrice, FEE_VOLATILITY_BUFFER_PCT)

\* adjustCostsForSponsoredMode(costs, solAdvance).totalSponsorCost
adjustCostsForSponsoredMode(priorityFee, accountRentCost, solAdvanceLamports) ==
  SOLANA_BASE_FEE_LAMPORTS * 2 + priorityFee + accountRentCost + solAdvanceLamports

(***************************************************************************)
(* State                                                                   *)
(***************************************************************************)
VARIABLES
  now,            \* wall clock, seconds
  oraclePrice,    \* SOL/USD price the on-chain feed currently publishes
  priceCache,     \* FeeCalculator.priceCache['SOL/USD']: price 0 = no entry
  pendingSwaps,   \* SwapOrchestrator.pendingSwaps: Map swap id -> entry
  nextId,         \* the next swap id crypto.randomUUID() yields
  prep,           \* the prepareSwap call in progress and its last outcome
  db,             \* durable Swap rows: Map swap id -> row
  exec,           \* the executeSwap calls
  submissions,    \* per swap id, the transactions sent to the source chain
  monitors,       \* the monitoring sessions monitorSwapAsync started
  activeMonitors, \* SwapOrchestrator.activeMonitors: swap id -> session or 0
  polls,          \* timer callbacks of the monitors that are awaiting
  providers,      \* ProviderRegistry.providers: names in insertion order
  agg,            \* the getAggregatedQuotes call in progress / last finished
  libCall         \* a library function called on its own: arguments and result

feeVars == <<oraclePrice, priceCache>>
prepVars == <<pendingSwaps, nextId, prep>>
execVars == <<db, exec, submissions>>
monVars == <<monitors, activeMonitors, polls>>
quoteVars == <<providers, agg>>
vars == <<now, feeVars, prepVars, execVars, monVars, quoteVars, libCall>>

\* getSolPrice: the price returned (0 = PriceOracleError) and the cache after.
\* fetchOk says whether fetchPythPriceOnchain succeeds when it is called.
getSolPrice(fetchOk) ==
  IF priceCache.price # 0 /\ (now - priceCache.timestamp) * 1000 < PRICE_CACHE_TTL
  THEN [price |-> priceCache.price, cache |-> priceCache]
  ELSE IF fetchOk
       THEN [price |-> oraclePrice,
             cache |-> [price |-> oraclePrice, timestamp |-> now]]
       ELSE [price |-> priceCache.price, cache |-> priceCache]

\* variant: the expiry is never taken to have passed
IsExpired_Never(validUntil) == FALSE

\* variant: the expiry is compared one validity period late
IsExpired_Late(validUntil) == now > validUntil + QUOTE_EXPIRY_SECONDS

\* new Date() > validUntil
IsExpired(validUntil) == now > validUntil

\* variant: the sweep removes nothing
cleanupExpiredPendingSwaps_KeepsAll(pend) == pend

\* cleanupExpiredPendingSwaps
cleanupExpiredPendingSwaps(pend) ==
  [id \in {x \in DOMAIN pend : ~IsExpired(pend[x].validUntil)} |-> pend[id]]

\* txSize: the length of the transaction built for the request, sizeValid
\* what validateTransactionSize said of it; driftPassed, guaranteesPassed,
\* sponsorSigned and leakAccepted record which steps the last call went
\* through: the drift guard, the guarantees guard, the sponsor's signature
\* in addFeeTransferToTransaction, and validateNoFundLeak accepting
IdlePrep(result) ==
  [pc |-> "idle", feeToken |-> None, provider |-> None, cost |-> 0, fee |-> 0,
   quoteValidUntil |-> 0, errors |-> {}, refPrice |-> 0, txSize |-> 0,
   sizeValid |-> TRUE, driftPassed |-> FALSE, guaranteesPassed |-> FALSE,
   sponsorSigned |-> FALSE, leakAccepted |-> FALSE, result |-> result]

(***************************************************************************)
(* Environment: the clock and the oracle feed                              *)
(***************************************************************************)
Tick(maxTime) ==
  /\ now + TickSeconds <= maxTime
  /\ now' = now + TickSeconds
  /\ UNCHANGED <<feeVars, prepVars, execVars, monVars, quoteVars, libCall>>

OracleMove ==
  /\ \E p \in Prices \ {oraclePrice} : oraclePrice' = p
  /\ UNCHANGED <<now, priceCache, prepVars, execVars, monVars, quoteVars, libCall>>

\* another caller of getSolPrice (getAggregatedQuotes prices every quote)
PriceLookup ==
  /\ \E fetchOk \in BOOLEAN : priceCache' = getSolPrice(fetchOk).cache
  /\ priceCache' # priceCache
  /\ UNCHANGED <<now, oraclePrice, prepVars, execVars, monVars, quoteVars, libCall>>

(***************************************************************************)
(* SwapOrchestrator.prepareSwap                                            *)
(***************************************************************************)
\* entry up to the first price lookup: sweep, validateQuote + drift check,
\* estimateCosts, buildTransaction, and the SOL / USDC branch
PrepareStart(quotes) ==
  /\ prep.pc = "idle"
  /\ nextId <= MaxSwaps
  /\ \E q \in quotes :
       LET feeToken == q.feeToken
           provider == q.provider
           validUntil == now + q.validFor
           driftOk == q.driftOk
           priorityFee == q.priorityFee
       IN
       /\ pendingSwaps' = cleanupExpiredPendingSwaps(pendingSwaps)
       /\ IF now > validUntil \/ ~driftOk
          THEN prep' = IdlePrep("QuoteDriftError")
          ELSE IF feeToken = "SOL"
          THEN prep' = [IdlePrep(None) EXCEPT !.pc = "simulate",
                          !.driftPassed = TRUE,
                          !.feeToken = feeToken, !.provider = provider,
                          !.quoteValidUntil = validUntil, !.txSize = q.txSize]
          ELSE prep' = [IdlePrep(None) EXCEPT !.pc = "fee",
                          !.driftPassed = TRUE,
                          !.feeToken = feeToken, !.provider = provider,
                          !.quoteValidUntil = validUntil, !.txSize = q.txSize,
                          !.cost = adjustCostsForSponsoredMode(priorityFee, 0,
                                     IF provider = "debridge"
                                     THEN DEBRIDGE_ORDER_RENT_LAMPORTS ELSE 0)]
  /\ UNCHANGED <<now, feeVars, nextId, execVars, monVars, quoteVars, libCall>>

\* feeCalculator.calculateMinimumFee(finalCosts)
PrepareFee ==
  /\ prep.pc = "fee"
  /\ \E fetchOk \in BOOLEAN :
       LET r == getSolPrice(fetchOk)
       IN /\ priceCache' = r.cache
          /\ IF r.price = 0
             THEN prep' = [IdlePrep("PriceOracleError") EXCEPT !.driftPassed = TRUE]
             ELSE prep' = [prep EXCEPT !.pc = "validate",
                             !.fee = calculateMinimumFeeUsdc(prep.cost, r.price)]
  /\ UNCHANGED <<now, oraclePrice, pendingSwaps, nextId, execVars, monVars, quoteVars, libCall>>

\* validateEconomicGuarantees up to its await: coverage and quote expiry
PrepareValidate ==
  /\ prep.pc = "validate"
  /\ prep' = [prep EXCEPT !.pc = "minfee", !.refPrice = priceCache.price,
                !.errors =
                  (IF validateFeeCoverage(prep.fee, prep.cost, priceCache.price)
                   THEN {} ELSE {"User fee does not cover sponsor costs"})
                  \cup (IF now > prep.quoteValidUntil
                        THEN {"Quote has expired"} ELSE {})]
  /\ UNCHANGED <<now, feeVars, pendingSwaps, nextId, execVars, monVars, quoteVars, libCall>>

\* variant: the sponsor signs before the guarantees guard is applied
PrepareMinFee_SignsFirst ==
  /\ prep.pc = "minfee"
  /\ \E fetchOk \in BOOLEAN :
       LET r == getSolPrice(fetchOk)
           errors ==
             prep.errors
             \cup (IF prep.fee < calculateMinimumFeeUsdc(prep.cost, r.price)
                   THEN {"Fee too low"} ELSE {})
             \cup (IF prep.cost > MaxReasonableCostLamports
                   THEN {"Sponsor costs unreasonably high"} ELSE {})
           completeTx ==
             addFeeTransferToTransaction(ProviderTx, "USDC",
               IF prep.provider = "debridge"
               THEN DEBRIDGE_ORDER_RENT_LAMPORTS ELSE 0)
       IN /\ priceCache' = r.cache
          /\ IF r.price = 0
             THEN prep' = [IdlePrep("PriceOracleError") EXCEPT !.driftPassed = TRUE]
             ELSE IF errors # {}
             THEN prep' = [IdlePrep("EconomicValidationError") EXCEPT
                             !.driftPassed = TRUE, !.sponsorSigned = TRUE]
             ELSE IF ~validateNoFundLeak(completeTx, SPONSOR)
             THEN prep' = [IdlePrep("TransactionValidationError") EXCEPT
                             !.driftPassed = TRUE, !.guaranteesPassed = TRUE,
                             !.sponsorSigned = TRUE]
             ELSE prep' = [prep EXCEPT !.pc = "simulate", !.errors = {},
                             !.guaranteesPassed = TRUE, !.sponsorSigned = TRUE,
                             !.leakAccepted = TRUE]
  /\ UNCHANGED <<now, oraclePrice, pendingSwaps, nextId, execVars, monVars, quoteVars, libCall>>

\* validateEconomicGuarantees after calculateMinimumFee resolved (minimum fee
\* and sanity ceiling), then the guard, addFeeTransferToTransaction and
\* validateNoFundLeak on the built transaction
PrepareMinFee ==
  /\ prep.pc = "minfee"
  /\ \E fetchOk \in BOOLEAN :
       LET r == getSolPrice(fetchOk)
           errors ==
             prep.errors
             \cup (IF prep.fee < calculateMinimumFeeUsdc(prep.cost, r.price)
                   THEN {"Fee too low"} ELSE {})
             \cup (IF prep.cost > MaxReasonableCostLamports
                   THEN {"Sponsor costs unreasonably high"} ELSE {})
           completeTx ==
             addFeeTransferToTransaction(ProviderTx, "USDC",
               IF prep.provider = "debridge"
               THEN DEBRIDGE_ORDER_RENT_LAMPORTS ELSE 0)
       IN /\ priceCache' = r.cache
          /\ IF r.price = 0
             THEN prep' = [IdlePrep("PriceOracleError") EXCEPT !.driftPassed = TRUE]
             ELSE IF errors # {}
             THEN prep' = [IdlePrep("EconomicValidationError") EXCEPT
                             !.driftPassed = TRUE]
             ELSE IF ~validateNoFundLeak(completeTx, SPONSOR)
             THEN prep' = [IdlePrep("TransactionValidationError") EXCEPT
                             !.driftPassed = TRUE, !.guaranteesPassed = TRUE,
                             !.sponsorSigned = TRUE]
             ELSE prep' = [prep EXCEPT !.pc = "simulate", !.errors = {},
                             !.guaranteesPassed = TRUE, !.sponsorSigned = TRUE,
                             !.leakAccepted = TRUE]
  /\ UNCHANGED <<now, oraclePrice, pendingSwaps, nextId, execVars, monVars, quoteVars, libCall>>

\* validateTransactionSize: serializedTx.length against the limit
validateTransactionSize(size) ==
  [valid |-> size <= MAX_TRANSACTION_SIZE, size |-> size,
   maxSize |-> MAX_TRANSACTION_SIZE]

\* validateTransactionSize (its verdict is logged) and simulateTransaction
\* resolved: an 'insufficient funds' log aborts, any other outcome stores the
\* pending entry under a fresh id and returns it with the transaction
PrepareStore ==
  /\ prep.pc = "simulate"
  /\ \E simulation \in {"ok", "insufficient funds", "other failure"} :
       IF simulation = "insufficient funds"
       THEN /\ prep' = [IdlePrep("INSUFFICIENT_BALANCE") EXCEPT
                           !.driftPassed = prep.driftPassed,
                           !.guaranteesPassed = prep.guaranteesPassed,
                           !.sponsorSigned = prep.sponsorSigned,
                           !.leakAccepted = prep.leakAccepted]
            /\ UNCHANGED <<pendingSwaps, nextId>>
       ELSE /\ pendingSwaps' =
                 MapSet(pendingSwaps, nextId,
                    [userFeeToken |-> prep.feeToken,
                     userFeeAmount |-> prep.fee,
                     sponsorCostsSol |->
                       IF prep.feeToken = "SOL" THEN 0 ELSE prep.cost,
                     provider |-> prep.provider,
                     validUntil |-> now + QUOTE_EXPIRY_SECONDS,
                     refPrice |-> prep.refPrice])
            /\ nextId' = nextId + 1
            /\ prep' = [IdlePrep("prepared") EXCEPT !.txSize = prep.txSize,
                         !.sizeValid = validateTransactionSize(prep.txSize).valid,
                         !.driftPassed = prep.driftPassed,
                         !.guaranteesPassed = prep.guaranteesPassed,
                         !.sponsorSigned = prep.sponsorSigned,
                         !.leakAccepted = prep.leakAccepted]
  /\ UNCHANGED <<now, feeVars, execVars, monVars, quoteVars, libCall>>

(***************************************************************************)
(* SwapRepository (Prisma): rows keyed by the unique id                    *)
(***************************************************************************)
\* variant: no unique key on id (the insert always succeeds)
RepoCanCreate_NoKey(rows, id) == TRUE

\* prisma.swap.create: inserting an id that exists violates the key (throws)
RepoCanCreate(rows, id) == ~Has(rows, id)

RepoCreate(rows, id, initialStatus) ==
  MapSet(rows, id,
     [status |-> initialStatus, solanaSignature |-> FALSE,
      errorMessage |-> FALSE])

\* updateStatus(id, status, additionalData): writes the status it is given
RepoUpdateStatus(rows, id, status) == [rows EXCEPT ![id].status = status]

(***************************************************************************)
(* SwapOrchestrator.executeSwap                                            *)
(***************************************************************************)
\* HTTP status of what executeSwap throws (AppError.statusCode)
StatusCode(result) ==
  CASE result = "NotFoundError" -> 404
    [] result = "QuoteExpiredError" -> 400
    [] OTHER -> 200

IdleExec ==
  [pc |-> "idle", id |-> UnknownId, tx |-> GarbageTx, result |-> None,
   feeToken |-> None, found |-> FALSE, expired |-> FALSE, created |-> FALSE, sent |-> FALSE,
   confirmed |-> FALSE, landed |-> FALSE, updated |-> FALSE]

\* steps 1-4 and the call of swapRepository.create; the calls are numbered
\* in the order they start
ExecStart(c) ==
  /\ exec[c].pc = "idle"
  /\ \A c2 \in 1..(c - 1) : exec[c2].pc # "idle"
  /\ \E id \in (1..(nextId - 1)) \cup {UnknownId}, tx \in SignedTxs :
       LET call == [IdleExec EXCEPT !.id = id, !.tx = tx]
           pending == pendingSwaps[id]
       IN IF ~Has(pendingSwaps, id)
          THEN /\ exec' = [exec EXCEPT ![c] =
                             [call EXCEPT !.pc = "done", !.result = "NotFoundError"]]
               /\ UNCHANGED pendingSwaps
          ELSE IF IsExpired(pending.validUntil)
          THEN /\ exec' = [exec EXCEPT ![c] =
                             [call EXCEPT !.pc = "done",
                                          !.expired = now > pending.validUntil,
                                          !.result = "QuoteExpiredError"]]
               /\ pendingSwaps' = MapDelete(pendingSwaps, id)
          ELSE IF pending.userFeeToken # "SOL" /\ ~validateNoFundLeak(tx, SPONSOR)
          THEN /\ exec' = [exec EXCEPT ![c] =
                             [call EXCEPT !.pc = "done",
                                          !.feeToken = pending.userFeeToken,
                                          !.found = ~(now > pending.validUntil),
                                          !.expired = now > pending.validUntil,
                                          !.result = "failed"]]
               /\ pendingSwaps' = MapDelete(pendingSwaps, id)
          ELSE /\ exec' = [exec EXCEPT ![c] =
                             [call EXCEPT !.pc = "create",
                                          !.feeToken = pending.userFeeToken,
                                          !.found = ~(now > pending.validUntil),
                                          !.expired = now > pending.validUntil]]
               /\ UNCHANGED pendingSwaps
  /\ UNCHANGED <<now, feeVars, nextId, prep, db, submissions, monVars, quoteVars, libCall>>

\* swapRepository.create settled: on success drop the pending entry and call
\* sendAndConfirmTransaction; a rejected insert lands in the catch block
ExecCreate(c) ==
  /\ exec[c].pc = "create"
  /\ LET id == exec[c].id
     IN /\ pendingSwaps' = MapDelete(pendingSwaps, id)
        /\ IF RepoCanCreate(db, id)
           THEN /\ db' = RepoCreate(db, id, "SUBMITTED")
                /\ submissions' = [submissions EXCEPT ![id] = @ + 1]
                /\ exec' = [exec EXCEPT ![c].pc = "send", ![c].created = TRUE,
                                        ![c].sent = TRUE]
           ELSE /\ exec' = [exec EXCEPT ![c].pc = "done", ![c].result = "failed"]
                /\ UNCHANGED <<db, submissions>>
  /\ UNCHANGED <<now, feeVars, nextId, prep, monVars, quoteVars, libCall>>

\* what sendAndConfirmTransaction resolves with (success) against what the
\* chain did with the transaction (landed: accepted and confirmed).  It
\* reports success only for a status it read as confirmed or finalized; it
\* reports failure for a rejected send or a status with err, and also when
\* a getSignatureStatuses call throws after the send, or the 30 polls run
\* out, whatever the chain does with the transaction.
SendOutcomes ==
  {[success |-> TRUE, landed |-> TRUE],
   [success |-> FALSE, landed |-> FALSE],
   [success |-> FALSE, landed |-> TRUE]}

\* sendAndConfirmTransaction resolved (it never throws) and updateStatus is
\* called with FAILED or with SUBMITTED + signature
ExecSend(c) ==
  /\ exec[c].pc = "send"
  /\ \E outcome \in SendOutcomes :
       exec' = [exec EXCEPT ![c].pc = "update", ![c].confirmed = outcome.success,
                            ![c].landed = outcome.landed]
  /\ UNCHANGED <<now, feeVars, prepVars, db, submissions, monVars, quoteVars, libCall>>

\* monitorSwapAsync up to setInterval: register the AbortController
StartMonitor(id) ==
  /\ monitors' = Append(monitors,
                   [swapId |-> id, aborted |-> FALSE, live |-> TRUE,
                    attempts |-> 0])
  /\ activeMonitors' = [activeMonitors EXCEPT ![id] = Len(monitors) + 1]

\* variant: the monitor is started whatever the submission reported
ExecUpdate_MonitorsAlways(c) ==
  /\ exec[c].pc = "update"
  /\ \E updateOk \in BOOLEAN :
       LET id == exec[c].id
       IN IF ~updateOk
          THEN /\ exec' = [exec EXCEPT ![c].pc = "done", ![c].result = "failed"]
               /\ UNCHANGED <<db, monitors, activeMonitors>>
          ELSE IF exec[c].confirmed
          THEN /\ db' = [RepoUpdateStatus(db, id, "SUBMITTED")
                           EXCEPT ![id].solanaSignature = TRUE]
               /\ StartMonitor(id)
               /\ exec' = [exec EXCEPT ![c].pc = "done", ![c].updated = TRUE,
                                       ![c].result = "submitted"]
          ELSE /\ db' = [RepoUpdateStatus(db, id, "FAILED")
                           EXCEPT ![id].errorMessage = TRUE]
               /\ StartMonitor(id)
               /\ exec' = [exec EXCEPT ![c].pc = "done", ![c].updated = TRUE,
                                       ![c].result = "failed"]
  /\ UNCHANGED <<now, feeVars, prepVars, submissions, polls, quoteVars, libCall>>

\* updateStatus settled: return failed, or start the monitor and return.
\* A rejected update (updateOk false) lands in the catch block: the pending
\* entry is deleted again (it is gone since create) and, the error being no
\* AppError, failed is returned.
ExecUpdate(c) ==
  /\ exec[c].pc = "update"
  /\ \E updateOk \in BOOLEAN :
       LET id == exec[c].id
       IN IF ~updateOk
          THEN /\ exec' = [exec EXCEPT ![c].pc = "done", ![c].result = "failed"]
               /\ UNCHANGED <<db, monitors, activeMonitors>>
          ELSE IF exec[c].confirmed
          THEN /\ db' = [RepoUpdateStatus(db, id, "SUBMITTED")
                           EXCEPT ![id].solanaSignature = TRUE]
               /\ StartMonitor(id)
               /\ exec' = [exec EXCEPT ![c].pc = "done", ![c].updated = TRUE,
                                       ![c].result = "submitted"]
          ELSE /\ db' = [RepoUpdateStatus(db, id, "FAILED")
                           EXCEPT ![id].errorMessage = TRUE]
               /\ exec' = [exec EXCEPT ![c].pc = "done", ![c].updated = TRUE,
                                       ![c].result = "failed"]
               /\ UNCHANGED <<monitors, activeMonitors>>
  /\ UNCHANGED <<now, feeVars, prepVars, submissions, polls, quoteVars, libCall>>

(***************************************************************************)
(* Monitoring: the setInterval callback of monitorSwapAsync                *)
(***************************************************************************)
\* cleanup(): clearInterval + activeMonitors.delete(swapId)
CleanupMonitors(mons, m) == [mons EXCEPT ![m].live = FALSE]
CleanupActive(act, id) == [act EXCEPT ![id] = 0]

PollsOf(m) == {p \in polls : p.mon = m}

\* the timer fires: attempts++ and provider.getStatus is called
TimerFire(m, maxPolls, maxInFlight) ==
  /\ m \in 1..Len(monitors)
  /\ monitors[m].live
  /\ monitors[m].attempts < maxPolls
  /\ Cardinality(PollsOf(m)) < maxInFlight
  /\ IF monitors[m].aborted
     THEN /\ monitors' = CleanupMonitors(monitors, m)
          /\ activeMonitors' = CleanupActive(activeMonitors, monitors[m].swapId)
          /\ UNCHANGED polls
     ELSE /\ monitors' = [monitors EXCEPT ![m].attempts = @ + 1]
          /\ polls' = polls \cup
               {[mon |-> m, n |-> monitors[m].attempts + 1, pc |-> "getStatus",
                 status |-> None]}
          /\ UNCHANGED activeMonitors
  /\ UNCHANGED <<now, feeVars, prepVars, execVars, quoteVars, libCall>>

\* the attempt-budget check at the end of the try block
BudgetSpent(mons, m) == mons[m].attempts >= MONITOR_MAX_ATTEMPTS

\* provider.getStatus settled
PollStatus(p) ==
  /\ p \in polls
  /\ p.pc = "getStatus"
  /\ \E status \in {"pending", "processing", "completed", "failed", "throws"} :
       IF status = "throws"
       THEN \* catch: logged, no cleanup, the budget check is skipped
            /\ polls' = polls \ {p}
            /\ UNCHANGED <<monitors, activeMonitors>>
       ELSE IF status = "pending"
       THEN \* no durable update; straight to the budget check
            /\ polls' = polls \ {p}
            /\ IF BudgetSpent(monitors, p.mon)
               THEN /\ monitors' = CleanupMonitors(monitors, p.mon)
                    /\ activeMonitors' =
                         CleanupActive(activeMonitors, monitors[p.mon].swapId)
               ELSE UNCHANGED <<monitors, activeMonitors>>
       ELSE /\ polls' = (polls \ {p}) \cup
                          {[p EXCEPT !.pc = "update", !.status = status]}
            /\ UNCHANGED <<monitors, activeMonitors>>
  /\ UNCHANGED <<now, feeVars, prepVars, execVars, quoteVars, libCall>>

StatusFor(providerStatus) ==
  CASE providerStatus = "processing" -> "BRIDGING"
    [] providerStatus = "completed" -> "COMPLETED"
    [] providerStatus = "failed" -> "FAILED"

\* swapRepository.updateStatus settled: cleanup on a terminal status, then
\* the budget check
PollUpdate(p) ==
  /\ p \in polls
  /\ p.pc = "update"
  /\ LET id == monitors[p.mon].swapId
         stop == p.status \in {"completed", "failed"}
                   \/ BudgetSpent(monitors, p.mon)
     IN /\ db' = RepoUpdateStatus(db, id, StatusFor(p.status))
        /\ polls' = polls \ {p}
        /\ IF stop
           THEN /\ monitors' = CleanupMonitors(monitors, p.mon)
                /\ activeMonitors' = CleanupActive(activeMonitors, id)
           ELSE UNCHANGED <<monitors, activeMonitors>>
  /\ UNCHANGED <<now, feeVars, prepVars, exec, submissions, quoteVars, libCall>>

\* variant: the abort reaches every session
Abort_EverySession(mons, m) ==
  [k \in 1..Len(mons) |-> [mons[k] EXCEPT !.aborted = TRUE, !.live = FALSE]]

\* controller.abort(): the abort listener runs cleanup() at once
Abort(mons, m) == [mons EXCEPT ![m].aborted = TRUE, ![m].live = FALSE]

stopMonitoring(id) ==
  /\ activeMonitors[id] # 0
  /\ monitors' = Abort(monitors, activeMonitors[id])
  /\ activeMonitors' = CleanupActive(activeMonitors, id)
  /\ UNCHANGED <<now, feeVars, prepVars, execVars, polls, quoteVars, libCall>>

stopAllMonitoring ==
  /\ \E id \in SwapIds : activeMonitors[id] # 0
  /\ monitors' =
       [m \in 1..Len(monitors) |->
          IF \E id \in SwapIds : activeMonitors[id] = m
          THEN Abort(monitors, m)[m] ELSE monitors[m]]
  /\ activeMonitors' = [id \in SwapIds |-> 0]
  /\ UNCHANGED <<now, feeVars, prepVars, execVars, polls, quoteVars, libCall>>

(***************************************************************************)
(* JavaScript numbers: IEEE-754 binary64, round to nearest, ties to even.  *)
(* An integer of any size is a little-endian sequence of limbs; a number   *)
(* is [m, e], standing for m * 2^e with m of exactly SignificandBits bits, *)
(* or m = <<>> for zero.  Every operation computes the exact result and    *)
(* rounds it once.  Only non-negative, finite, normal values occur.        *)
(***************************************************************************)
SignificandBits == 53
\* width of a limb of the integer representation (any width up to 14 bits
\* gives the same numbers)
LimbBits == 13
LimbBase == 2^LimbBits

RECURSIVE BigNorm(_)
BigNorm(a) ==
  IF a # <<>> /\ a[Len(a)] = 0 THEN BigNorm(SubSeq(a, 1, Len(a) - 1)) ELSE a

RECURSIVE BigFromInt(_)
BigFromInt(n) ==
  IF n = 0 THEN <<>> ELSE <<n % LimbBase>> \o BigFromInt(n \div LimbBase)

Limb(a, i) == IF i <= Len(a) THEN a[i] ELSE 0

RECURSIVE BigAddFrom(_, _, _, _)
BigAddFrom(a, b, i, carry) ==
  IF i > Len(a) /\ i > Len(b)
  THEN IF carry = 0 THEN <<>> ELSE <<carry>>
  ELSE LET s == Limb(a, i) + Limb(b, i) + carry
       IN <<s % LimbBase>> \o BigAddFrom(a, b, i + 1, s \div LimbBase)

BigAdd(a, b) == BigAddFrom(a, b, 1, 0)

RECURSIVE BigSubFrom(_, _, _, _)
BigSubFrom(a, b, i, borrow) ==
  IF i > Len(a)
  THEN <<>>
  ELSE LET d == Limb(a, i) - Limb(b, i) - borrow
       IN IF d < 0
          THEN <<d + LimbBase>> \o BigSubFrom(a, b, i + 1, 1)
          ELSE <<d>> \o BigSubFrom(a, b, i + 1, 0)

\* a - b for a >= b
BigSub(a, b) == BigNorm(BigSubFrom(a, b, 1, 0))

RECURSIVE BigCmpFrom(_, _, _)
BigCmpFrom(a, b, i) ==
  IF i = 0 THEN 0
  ELSE IF a[i] > b[i] THEN 1
  ELSE IF a[i] < b[i] THEN -1
  ELSE BigCmpFrom(a, b, i - 1)

\* -1, 0, 1 as a < b, a = b, a > b
BigCmp(a, b) ==
  IF Len(a) > Len(b) THEN 1
  ELSE IF Len(a) < Len(b) THEN -1
  ELSE BigCmpFrom(a, b, Len(a))

RECURSIVE BigMulSmallFrom(_, _, _, _)
BigMulSmallFrom(a, k, i, carry) ==
  IF i > Len(a)
  THEN IF carry = 0 THEN <<>> ELSE <<carry>>
  ELSE LET p == a[i] * k + carry
       IN <<p % LimbBase>> \o BigMulSmallFrom(a, k, i + 1, p \div LimbBase)

\* a * k for 0 <= k < LimbBase
BigMulSmall(a, k) == IF k = 0 THEN <<>> ELSE BigMulSmallFrom(a, k, 1, 0)

RECURSIVE BigMulFrom(_, _, _)
BigMulFrom(a, b, i) ==
  IF i > Len(a)
  THEN <<>>
  ELSE LET rest == BigMulFrom(a, b, i + 1)
       IN BigAdd(BigMulSmall(b, a[i]),
                 IF rest = <<>> THEN <<>> ELSE <<0>> \o rest)

BigMul(a, b) == BigMulFrom(a, b, 1)

RECURSIVE BigDivSmallFrom(_, _, _, _)
BigDivSmallFrom(a, d, i, rem) ==
  IF i = 0
  THEN <<>>
  ELSE LET n == rem * LimbBase + a[i]
       IN BigDivSmallFrom(a, d, i - 1, n % d) \o <<n \div d>>

\* floor(a / d) for 0 < d <= LimbBase
BigDivSmall(a, d) == BigNorm(BigDivSmallFrom(a, d, Len(a), 0))

Zeros(n) == [i \in 1..n |-> 0]

\* a * 2^k
BigShl(a, k) ==
  IF a = <<>> THEN <<>>
  ELSE Zeros(k \div LimbBits) \o BigMulSmall(a, 2^(k % LimbBits))

\* floor(a / 2^k)
BigShr(a, k) ==
  IF k \div LimbBits >= Len(a) THEN <<>>
  ELSE BigDivSmall(SubSeq(a, k \div LimbBits + 1, Len(a)), 2^(k % LimbBits))

RECURSIVE IntBitLen(_)
IntBitLen(n) == IF n = 0 THEN 0 ELSE 1 + IntBitLen(n \div 2)

BigBitLen(a) ==
  IF a = <<>> THEN 0 ELSE LimbBits * (Len(a) - 1) + IntBitLen(a[Len(a)])

BigIsOdd(a) == a # <<>> /\ a[1] % 2 = 1

FloatZero == [m |-> <<>>, e |-> 0]

\* q or q + 1 of SignificandBits bits at exponent e, renormalised when q + 1
\* needs one bit more
FloatPack(q, e) ==
  IF BigBitLen(q) > SignificandBits
  THEN [m |-> BigShr(q, 1), e |-> e + 1]
  ELSE [m |-> q, e |-> e]

\* round q up when the part cut off (half: its comparison with one half) says so
FloatRoundUp(q, e, half, sticky) ==
  IF half = 1 \/ (half = 0 /\ (sticky \/ BigIsOdd(q)))
  THEN FloatPack(BigAdd(q, <<1>>), e)
  ELSE [m |-> q, e |-> e]

\* big has s > 0 bits too many: q keeps the leading SignificandBits bits
FloatCut(big, e, sticky, s, q) ==
  FloatRoundUp(q, e + s,
               BigCmp(BigSub(big, BigShl(q, s)), BigShl(<<1>>, s - 1)), sticky)

FloatRoundBy(big, e, sticky, s) ==
  IF s <= 0
  THEN [m |-> BigShl(big, -s), e |-> e + s]
  ELSE FloatCut(big, e, sticky, s, BigShr(big, s))

\* the number nearest to (big + a fraction) * 2^e; sticky says the fraction is
\* not zero (then big has more than SignificandBits bits)
FloatRound(big, e, sticky) ==
  IF big = <<>>
  THEN FloatZero
  ELSE FloatRoundBy(big, e, sticky, BigBitLen(big) - SignificandBits)

\* Number of an integer: exact up to 2^53, rounded above
FloatFromBig(big) == FloatRound(big, 0, FALSE)

\* -1, 0, 1 as x < y, x = y, x > y
FloatCmp(x, y) ==
  IF x.m = <<>> \/ y.m = <<>>
  THEN IF x.m # <<>> THEN 1 ELSE IF y.m # <<>> THEN -1 ELSE 0
  ELSE IF x.e > y.e THEN 1
  ELSE IF x.e < y.e THEN -1
  ELSE BigCmp(x.m, y.m)

MinInt(a, b) == IF a <= b THEN a ELSE b

FloatAdd(x, y) ==
  IF x.m = <<>> THEN y
  ELSE IF y.m = <<>> THEN x
  ELSE LET e == MinInt(x.e, y.e)
       IN FloatRound(BigAdd(BigShl(x.m, x.e - e), BigShl(y.m, y.e - e)),
                     e, FALSE)

\* x - y for x >= y
FloatSub(x, y) ==
  IF y.m = <<>> THEN x
  ELSE LET e == MinInt(x.e, y.e)
       IN FloatRound(BigSub(BigShl(x.m, x.e - e), BigShl(y.m, y.e - e)),
                     e, FALSE)

FloatMul(x, y) ==
  IF x.m = <<>> \/ y.m = <<>> THEN FloatZero
  ELSE FloatRound(BigMul(x.m, y.m), x.e + y.e, FALSE)

\* long division by limbs: d has its top limb at least LimbBase / 2, r is the
\* running remainder with one more limb appended (r < d * LimbBase). The digit
\* estimated from the two top limbs of r and the top limb of d is the right
\* one or exceeds it by at most two.
EstimateDigit(r, d) ==
  MinInt(LimbBase - 1,
         (Limb(r, Len(d) + 1) * LimbBase + Limb(r, Len(d))) \div d[Len(d)])

QuotientDigit(r, d, qhat) ==
  IF BigCmp(BigMulSmall(d, qhat), r) <= 0 THEN qhat
  ELSE IF BigCmp(BigMulSmall(d, qhat - 1), r) <= 0 THEN qhat - 1
  ELSE qhat - 2

DigitResult(r, d, q) == [q |-> q, rem |-> BigSub(r, BigMulSmall(d, q))]

\* the next limb of rem / d (rem < d), and the remainder left
DivLimb(rem, d) ==
  IF rem = <<>> THEN [q |-> 0, rem |-> <<>>]
  ELSE DigitResult(<<0>> \o rem, d,
                   QuotientDigit(<<0>> \o rem, d, EstimateDigit(<<0>> \o rem, d)))

PutLimb(limb, next) == [q |-> next.q \o <<limb.q>>, rem |-> next.rem]

\* the next k limbs of rem / d (rem < d), most significant last, and the
\* remainder left
RECURSIVE DivLimbs(_, _, _)
DivLimbsAfter(limb, d, k) == PutLimb(limb, DivLimbs(limb.rem, d, k - 1))

DivLimbs(rem, d, k) ==
  IF k = 0
  THEN [q |-> <<>>, rem |-> rem]
  ELSE DivLimbsAfter(DivLimb(rem, d), d, k)

\* limbs of quotient computed before rounding (5 or more give the same numbers)
QuotientLimbs == 5

\* bits to shift a significand so that its top limb is full
NormShift == LimbBits - 1 - ((SignificandBits - 1) % LimbBits)

FloatDivRound(first, d, e) ==
  FloatRound(IF first THEN d.q \o <<1>> ELSE BigNorm(d.q), e, d.rem # <<>>)

FloatDivFrom(x, y, first) ==
  FloatDivRound(first,
                DivLimbs(BigShl(IF first THEN BigSub(x.m, y.m) ELSE x.m, NormShift),
                         BigShl(y.m, NormShift), QuotientLimbs),
                x.e - y.e - QuotientLimbs * LimbBits)

\* x / y for y # 0: the integer bit and QuotientLimbs limbs of fraction (more
\* than SignificandBits + 2 bits), rounded
FloatDiv(x, y) ==
  IF x.m = <<>> THEN FloatZero ELSE FloatDivFrom(x, y, BigCmp(x.m, y.m) >= 0)

FloatFromInt(n) == FloatFromBig(BigFromInt(n))

\* parseFloat of a string of decimal digits: the Number nearest to the integer
parseFloat(amount) == FloatFromBig(amount)

(***************************************************************************)
(* Quote drift: provider.validateQuote and FeeValidator.validateQuoteDrift *)
(* Amounts are the digit strings of the quotes, held as integers.          *)
(***************************************************************************)
MAX_QUOTE_DRIFT == FloatDiv(FloatFromInt(MAX_QUOTE_DRIFT_PCT), FloatFromInt(100))

\* Math.abs((currentAmount - originalAmount) / originalAmount), for
\* originalAmount # 0
DriftOf(originalAmount, currentAmount) ==
  IF FloatCmp(currentAmount, originalAmount) >= 0
  THEN FloatDiv(FloatSub(currentAmount, originalAmount), originalAmount)
  ELSE FloatDiv(FloatSub(originalAmount, currentAmount), originalAmount)

QuoteValidation(drift) ==
  [isValid |-> FloatCmp(drift, MAX_QUOTE_DRIFT) <= 0, driftPercentage |-> drift]

\* validateQuote(quote): expired, or the re-quote throws: invalid with drift 0
validateQuote(destAmount, freshDestAmount, expired, requoteOk) ==
  IF expired \/ ~requoteOk
  THEN [isValid |-> FALSE, driftPercentage |-> FloatZero]
  ELSE QuoteValidation(DriftOf(parseFloat(destAmount), parseFloat(freshDestAmount)))

validateQuoteDrift(validation) ==
  validation.isValid /\ FloatCmp(validation.driftPercentage, MAX_QUOTE_DRIFT) <= 0

(***************************************************************************)
(* FeeCalculator.calculateMinimumFee and the fee transfer amount, in the   *)
(* arithmetic the code uses: Number for the products, decimal.js for the   *)
(* rounding, Number again for the returned fees and the token units.       *)
(***************************************************************************)
\* floor(x * scale) for a Number x and an integer scale
ScaledFloor(x, scale) ==
  IF x.e >= 0 THEN BigShl(BigMul(x.m, scale), x.e)
  ELSE BigShr(BigMul(x.m, scale), -x.e)

\* n / scale as a Number (Decimal.toNumber of a decimal with that many places)
DecimalToNumber(n, scale) == FloatDiv(FloatFromBig(n), FloatFromBig(scale))

\* new Decimal(x).toDecimalPlaces(d, ROUND_UP) in units of 10^-d, scale = 10^d.
\* new Decimal(x) reads x.toString(), the shortest decimal that converts back
\* to x: when x is the Number nearest to n / scale that decimal is n / scale
\* and stays; otherwise it lies strictly between two multiples of 1 / scale,
\* as x does, and is rounded up to the upper one.
DecimalUnitsUp(x, scale, n) ==
  IF FloatCmp(DecimalToNumber(n, scale), x) = 0 THEN n ELSE BigAdd(n, <<1>>)

toDecimalPlacesUp(x, scale) == DecimalUnitsUp(x, scale, ScaledFloor(x, scale))

\* Math.ceil(x) as an integer
MathCeilOf(x, floor) ==
  IF x.e >= 0 \/ BigShl(floor, -x.e) = x.m THEN floor ELSE BigAdd(floor, <<1>>)

MathCeil(x) == MathCeilOf(x, ScaledFloor(x, <<1>>))

\* finalCostSol = totalCostLamports / LAMPORTS_PER_SOL * (1 + volatilityBuffer)
\*                 * (1 + PLATFORM_FEE_BPS / 10000)
finalCostSol(totalCostLamports) ==
  FloatMul(
    FloatMul(FloatDiv(FloatFromInt(totalCostLamports), FloatFromInt(LAMPORTS_PER_SOL)),
             FloatAdd(FloatFromInt(1),
                      FloatDiv(FloatFromInt(FEE_VOLATILITY_BUFFER_PCT),
                               FloatFromInt(100)))),
    FloatAdd(FloatFromInt(1),
             FloatDiv(FloatFromInt(PLATFORM_FEE_BPS), FloatFromInt(10000))))

\* feeInUsdc and feeInSol, each as its number of smallest units
MinimumFeeFrom(costSol, solPriceUsd) ==
  [feeInUsdc |-> toDecimalPlacesUp(FloatMul(costSol, FloatFromInt(solPriceUsd)),
                                   BigFromInt(USDC_UNITS)),
   feeInSol |-> toDecimalPlacesUp(costSol, BigFromInt(LAMPORTS_PER_SOL))]

calculateMinimumFee(totalCostLamports, solPriceUsd) ==
  MinimumFeeFrom(finalCostSol(totalCostLamports), solPriceUsd)

\* createFeeTransferInstructions: Math.ceil(fee.amount * 10^decimals), where
\* fee.amount is the Number of the fee
FeeTransferAmount(feeAmount, scale) ==
  MathCeil(FloatMul(feeAmount, FloatFromInt(scale)))

(***************************************************************************)
(* ProviderRegistry: register / unregister / getAggregatedQuotes           *)
(***************************************************************************)
Range(seq) == {seq[i] : i \in 1..Len(seq)}

\* the names a provider can be registered under
RegistryNames == ProviderNames \cup {"mock"}

\* an amount string of a quote: a decimal integer in the token's smallest unit
Amount(n) == BigFromInt(n)
AmountAbove2To53(n) == BigAdd(BigShl(<<1>>, SignificandBits), BigFromInt(n))

\* what a provider's getQuote can resolve to: destAmount >= totalFees, net > 0,
\* estimatedDuration > 0
QuoteValues ==
  {[destAmount |-> Amount(70), totalFees |-> Amount(0), estimatedDuration |-> 10],
   [destAmount |-> Amount(75), totalFees |-> Amount(5), estimatedDuration |-> 10],
   [destAmount |-> Amount(72), totalFees |-> Amount(5), estimatedDuration |-> 9],
   [destAmount |-> AmountAbove2To53(0), totalFees |-> Amount(0),
    estimatedDuration |-> 10],
   [destAmount |-> AmountAbove2To53(1), totalFees |-> Amount(0),
    estimatedDuration |-> 10]}

\* the answers drawn while the whole aggregation is explored
FewQuoteValues ==
  {q \in QuoteValues : q.destAmount = Amount(72)}

\* no library call made yet
NoCall == [fn |-> None]

IdleAgg ==
  [pc |-> "idle", snapshot |-> <<>>, probe |-> EmptyMap, quoted |-> EmptyMap,
   got |-> EmptyMap, providerResults |-> <<>>,
   result |-> [ok |-> FALSE, error |-> None]]

\* providers.set(provider.name, provider): a Map keeps first-insertion order
register(name) ==
  /\ name \notin Range(providers)
  /\ providers' = Append(providers, name)
  /\ UNCHANGED <<now, feeVars, prepVars, execVars, monVars, agg, libCall>>

unregister(name) ==
  /\ name \in Range(providers)
  /\ providers' = SelectSeq(providers, LAMBDA n : n # name)
  /\ UNCHANGED <<now, feeVars, prepVars, execVars, monVars, agg, libCall>>

\* getAggregatedQuotes rejects
AggThrow(frame, message) ==
  [frame EXCEPT !.pc = "done", !.result = [ok |-> FALSE, error |-> message]]

\* entry: getAllProviders(), the empty check, and the calls of supportsRoute
AggStart ==
  /\ agg.pc \in {"idle", "done"}
  /\ agg' =
       IF Len(providers) = 0
       THEN AggThrow(IdleAgg, "No bridge providers registered")
       ELSE [IdleAgg EXCEPT
               !.pc = "probing",
               !.snapshot = providers,
               !.probe = [n \in Range(providers) |-> "pending"],
               !.quoted = [n \in Range(providers) |-> "notcalled"]]
  /\ UNCHANGED <<now, feeVars, prepVars, execVars, monVars, providers, libCall>>

\* supported flag of one probe: the returned value, or true when it threw
Supported_Strict(outcome) == outcome = "yes"

\* supported flag of one probe: the returned value, or true when it threw
Supported(outcome) == outcome # "no"

\* one supportsRoute settles
ProbeSettle(name) ==
  /\ agg.pc = "probing"
  /\ name \in DOMAIN agg.probe
  /\ agg.probe[name] = "pending"
  /\ \E outcome \in {"yes", "no", "threw"} :
       agg' = [agg EXCEPT
                 !.probe[name] = outcome,
                 !.providerResults =
                   IF outcome = "no"
                   THEN Append(@, [provider |-> name, status |-> "no_route"])
                   ELSE @]
  /\ UNCHANGED <<now, feeVars, prepVars, execVars, monVars, providers, libCall>>

eligibleProviders(frame) ==
  SelectSeq(frame.snapshot, LAMBDA n : Supported(frame.probe[n]))

\* every probe settled: filter, the eligibility check, the calls of getQuote
AggEligible ==
  /\ agg.pc = "probing"
  /\ \A n \in DOMAIN agg.probe : agg.probe[n] # "pending"
  /\ agg' =
       IF Len(eligibleProviders(agg)) = 0
       THEN AggThrow(agg, "No providers support this token pair")
       ELSE [agg EXCEPT
               !.pc = "quoting",
               !.quoted = [n \in DOMAIN @ |->
                             IF n \in Range(eligibleProviders(agg))
                             THEN "pending" ELSE @[n]]]
  /\ UNCHANGED <<now, feeVars, prepVars, execVars, monVars, providers, libCall>>

\* one getQuote settles: resolved with a quote, or rejected
QuoteSettle(name, values) ==
  /\ agg.pc = "quoting"
  /\ name \in DOMAIN agg.quoted
  /\ agg.quoted[name] = "pending"
  /\ \/ \E q \in values :
          agg' = [agg EXCEPT
                    !.quoted[name] = "ok",
                    !.got = MapSet(@, name,
                              [provider |-> name, destAmount |-> q.destAmount,
                               totalFees |-> q.totalFees,
                               estimatedDuration |-> q.estimatedDuration]),
                    !.providerResults =
                      Append(@, [provider |-> name, status |-> "success"])]
     \/ agg' = [agg EXCEPT
                  !.quoted[name] = "threw",
                  !.providerResults =
                    Append(@, [provider |-> name, status |-> "error"])]
  /\ UNCHANGED <<now, feeVars, prepVars, execVars, monVars, providers, libCall>>

\* the quotes of Promise.all(quotePromises): one rejection rejects them all
CollectQuotes_FailFast(eligible, quoted, got) ==
  LET ok == SelectSeq(eligible, LAMBDA n : quoted[n] = "ok")
  IN IF \E i \in 1..Len(eligible) : quoted[eligible[i]] = "threw"
     THEN <<>>
     ELSE [i \in 1..Len(ok) |-> got[ok[i]]]

\* (await Promise.all(quotePromises)).filter(q => q !== null)
CollectQuotes(eligible, quoted, got) ==
  LET ok == SelectSeq(eligible, LAMBDA n : quoted[n] = "ok")
  IN [i \in 1..Len(ok) |-> got[ok[i]]]

\* parseFloat(destAmount) - parseFloat(route.totalFees)
calculateNetAmount(quote) ==
  FloatSub(parseFloat(quote.destAmount), parseFloat(quote.totalFees))

\* Array.prototype.sort is stable, comparator bNet - aNet: q goes after every
\* quote whose net is not below its own
RECURSIVE InsertRanked(_, _)
InsertRanked(sorted, q) ==
  IF sorted = <<>>
  THEN <<q>>
  ELSE IF FloatCmp(calculateNetAmount(Head(sorted)), calculateNetAmount(q)) >= 0
       THEN <<Head(sorted)>> \o InsertRanked(Tail(sorted), q)
       ELSE <<q>> \o sorted

RECURSIVE rankQuotes(_)
rankQuotes(quotes) ==
  IF quotes = <<>>
  THEN <<>>
  ELSE InsertRanked(rankQuotes(SubSeq(quotes, 1, Len(quotes) - 1)),
                    quotes[Len(quotes)])

MaxDuration(rankedQuotes) ==
  CHOOSE d \in {rankedQuotes[i].estimatedDuration : i \in 1..Len(rankedQuotes)} :
    \A i \in 1..Len(rankedQuotes) : rankedQuotes[i].estimatedDuration <= d

\* the literals 0.7 and 0.3: the numbers nearest to 7/10 and 3/10
AmountWeight == FloatDiv(FloatFromInt(7), FloatFromInt(10))
SpeedWeight == FloatDiv(FloatFromInt(3), FloatFromInt(10))

\* totalScore = amountScore * 0.7 + speedScore * 0.3
Score(quote, rankedQuotes) ==
  LET netAmount == calculateNetAmount(quote)
      maxAmount == calculateNetAmount(rankedQuotes[1])
      amountScore == FloatDiv(netAmount, maxAmount)
      maxDuration == MaxDuration(rankedQuotes)
      speedScore == FloatSub(FloatFromInt(1),
                             FloatDiv(FloatFromInt(quote.estimatedDuration),
                                      FloatFromInt(maxDuration)))
  IN FloatAdd(FloatMul(amountScore, AmountWeight),
              FloatMul(speedScore, SpeedWeight))

\* the index a stable descending sort by score puts first
FirstBest(score) ==
  CHOOSE i \in DOMAIN score :
    /\ \A j \in DOMAIN score : FloatCmp(score[j], score[i]) <= 0
    /\ \A j \in 1..(i - 1) : FloatCmp(score[j], score[i]) < 0

selectRecommendedQuote(rankedQuotes) ==
  IF Len(rankedQuotes) = 1
  THEN rankedQuotes[1]
  ELSE rankedQuotes[FirstBest([i \in 1..Len(rankedQuotes) |->
                                 Score(rankedQuotes[i], rankedQuotes)])]

\* the AggregatedQuotes object of the ranked quotes
AggregatedQuotes(rankedQuotes, providerResults) ==
  [ok |-> TRUE, quotes |-> rankedQuotes,
   bestQuote |-> rankedQuotes[1],
   recommendedQuote |-> selectRecommendedQuote(rankedQuotes),
   providerResults |-> providerResults]

\* every getQuote settled: collect, the zero-quote check, rank and return
AggReturn ==
  /\ agg.pc = "quoting"
  /\ \A n \in DOMAIN agg.quoted : agg.quoted[n] # "pending"
  /\ LET quotes == CollectQuotes(eligibleProviders(agg), agg.quoted, agg.got)
     IN agg' =
          IF Len(quotes) = 0
          THEN AggThrow(agg, "Failed to get quotes from any provider")
          ELSE [agg EXCEPT
                  !.pc = "done",
                  !.result = AggregatedQuotes(rankQuotes(quotes),
                                              agg.providerResults)]
  /\ UNCHANGED <<now, feeVars, prepVars, execVars, monVars, providers, libCall>>

(***************************************************************************)
(* Specifications                                                          *)
(***************************************************************************)
Init ==
  /\ now = 0
  /\ oraclePrice = 150
  /\ priceCache = [price |-> 0, timestamp |-> 0]
  /\ pendingSwaps = EmptyMap
  /\ nextId = 1
  /\ prep = IdlePrep(None)
  /\ db = EmptyMap
  /\ exec = [c \in Calls |-> IdleExec]
  /\ submissions = [id \in SwapIds |-> 0]
  /\ monitors = <<>>
  /\ activeMonitors = [id \in SwapIds |-> 0]
  /\ polls = {}
  /\ providers = <<>>
  /\ agg = IdleAgg
  /\ libCall = NoCall

\* the prepareSwap requests: the quote's provider, its remaining validity,
\* the provider's validateQuote verdict and priority-fee estimate, the fee token
TxSizes == {MAX_TRANSACTION_SIZE, MAX_TRANSACTION_SIZE + 1}

\* txSize: the length of the transaction the build steps yield for the quote
\* (the provider's bytes in SOL mode, the re-encoded message with the fee
\* transfer and the sponsor's signature in USDC mode)
AllQuotes ==
  [feeToken : FeeTokens, provider : ProviderNames,
   validFor : {-1, 0, QUOTE_EXPIRY_SECONDS}, driftOk : BOOLEAN,
   priorityFee : PriorityFees, txSize : TxSizes]

\* requests with a fresh relay quote, in both fee modes
FreshQuotes ==
  {q \in AllQuotes : /\ q.provider = "relay" /\ q.validFor = QUOTE_EXPIRY_SECONDS
                     /\ q.driftOk /\ q.priorityFee = 0
                     /\ q.txSize = MAX_TRANSACTION_SIZE}

PrepareNext(quotes) ==
  \/ PrepareStart(quotes)
  \/ PrepareFee
  \/ PrepareValidate
  \/ PrepareMinFee
  \/ PrepareStore

\* prepareSwap under a moving price: fee computation and validation
NextPrepare ==
  \/ Tick(PrepMaxTime)
  \/ OracleMove
  \/ PriceLookup
  \/ PrepareNext(AllQuotes)

SpecPrepare == Init /\ [][NextPrepare]_vars

\* the swap lifecycle: prepare, execute, monitor, stop
NextSwap ==
  \/ Tick(MaxTime)
  \/ PrepareNext(FreshQuotes)
  \/ \E c \in Calls : ExecStart(c)
  \/ \E c \in Calls : ExecCreate(c)
  \/ \E c \in Calls : ExecSend(c)
  \/ \E c \in Calls : ExecUpdate(c)
  \/ \E m \in 1..Len(monitors) : TimerFire(m, SwapMaxPolls, SwapMaxInFlight)
  \/ \E p \in polls : PollStatus(p)
  \/ \E p \in polls : PollUpdate(p)
  \/ \E id \in SwapIds : stopMonitoring(id)
  \/ stopAllMonitoring

SpecSwap == Init /\ [][NextSwap]_vars

\* prepareSwap and executeSwap with the clock running past two validity
\* periods, so that entries expire both before a sweep and before an execute
NextExpiry ==
  \/ Tick(PrepMaxTime)
  \/ PrepareNext(FreshQuotes)
  \/ \E c \in Calls : ExecStart(c)
  \/ \E c \in Calls : ExecCreate(c)
  \/ \E c \in Calls : ExecSend(c)
  \/ \E c \in Calls : ExecUpdate(c)

SpecExpiry == Init /\ [][NextExpiry]_vars

\* one swap and its monitor, with overlapping status polls
NextMonitor ==
  \/ PrepareNext(FreshQuotes)
  \/ ExecStart(1)
  \/ ExecCreate(1)
  \/ ExecSend(1)
  \/ ExecUpdate(1)
  \/ \E m \in 1..Len(monitors) : TimerFire(m, MaxPolls, MaxInFlight)
  \/ \E p \in polls : PollStatus(p)
  \/ \E p \in polls : PollUpdate(p)
  \/ \E id \in SwapIds : stopMonitoring(id)

SpecMonitor == Init /\ [][NextMonitor]_vars

\* the provider registry and one getAggregatedQuotes call at a time
NextQuotes ==
  \/ \E name \in RegistryNames : register(name) \/ unregister(name)
  \/ AggStart
  \/ \E name \in RegistryNames :
       ProbeSettle(name) \/ QuoteSettle(name, FewQuoteValues)
  \/ AggEligible
  \/ AggReturn

SpecQuotes == Init /\ [][NextQuotes]_vars

\* what no library call touches
appVars == <<now, feeVars, prepVars, execVars, monVars, quoteVars>>

\* the quotes collected from up to MaxQuotes providers, in registration order
RankProviders == <<"relay", "debridge", "mock", "extra">>

RankInputs ==
  UNION {[1..k -> QuoteValues] : k \in 1..MaxQuotes}

WithProviders(values) ==
  [i \in 1..Len(values) |->
     [provider |-> RankProviders[i], destAmount |-> values[i].destAmount,
      totalFees |-> values[i].totalFees,
      estimatedDuration |-> values[i].estimatedDuration]]

\* the ranking part of getAggregatedQuotes on its own
RankCall ==
  /\ libCall = NoCall
  /\ \E values \in RankInputs :
       libCall' =
         [fn |-> "rankQuotes", quotes |-> WithProviders(values),
          result |-> AggregatedQuotes(rankQuotes(WithProviders(values)), <<>>)]
  /\ UNCHANGED appVars

NextRank == RankCall

SpecRank == Init /\ [][NextRank]_vars

\* sequences over a set of at most n elements
SeqUpTo(set, n) == UNION {[1..k -> set] : k \in 0..n}

Addresses ==
  {SPONSOR, USER, BRIDGE_PROGRAM, SYSTEM_PROGRAM_ADDRESS, TOKEN_PROGRAM_ADDRESS,
   TOKEN_2022_PROGRAM_ADDRESS, ASSOCIATED_TOKEN_PROGRAM_ADDRESS}

\* the byte arrays handed to validateNoFundLeak, by what they decode to: any
\* static account list and any program index per instruction, or no decoding
WireTxs ==
  {Tx(TRUE, accounts, ixs) :
     accounts \in SeqUpTo(Addresses, MaxTxAccounts),
     ixs \in SeqUpTo(0..MaxTxAccounts, MaxTxInstructions)}
    \cup {GarbageTx}

\* validateNoFundLeak(serializedTx, sponsorAddress?) on its own
LeakCall ==
  /\ libCall = NoCall
  /\ \E tx \in WireTxs, sponsorAddress \in {None, SPONSOR, USER} :
       libCall' =
         [fn |-> "validateNoFundLeak", tx |-> tx,
          sponsorAddress |-> sponsorAddress,
          result |-> [isValid |-> validateNoFundLeak(tx, sponsorAddress),
                      errors |-> NoFundLeakErrors(tx, sponsorAddress)]]
  /\ UNCHANGED appVars

NextLeak == LeakCall

SpecLeak == Init /\ [][NextLeak]_vars

\* provider transactions that decompile: every instruction names a program
\* that is in the account list
DecompilableTxs ==
  {tx \in WireTxs :
     /\ tx.decodes
     /\ \A i \in 1..Len(tx.instructions) : AccountAt(tx, tx.instructions[i]) # None}

\* addFeeTransferToTransaction(providerTxBytes, userWallet, sponsorSigner,
\* userFee, solAdvanceLamports) on its own; the decoder throws on other bytes
AddFeeCall ==
  /\ libCall = NoCall
  /\ \E providerTx \in DecompilableTxs \cup {GarbageTx}, feeToken \in FeeTokens,
        solAdvanceLamports \in {0, DEBRIDGE_ORDER_RENT_LAMPORTS} :
       libCall' =
         IF providerTx.decodes
         THEN [fn |-> "addFeeTransferToTransaction", threw |-> FALSE,
               feeToken |-> feeToken, solAdvanceLamports |-> solAdvanceLamports,
               bridgeInstructions |-> DecompiledPrograms(providerTx),
               result |-> addFeeTransferToTransaction(providerTx, feeToken,
                                                      solAdvanceLamports)]
         ELSE [fn |-> "addFeeTransferToTransaction", threw |-> TRUE]
  /\ UNCHANGED appVars

\* buildSponsoredTransaction(userWallet, sponsorSigner, bridgeInstructions,
\* userFee) on its own
BuildSponsoredCall ==
  /\ libCall = NoCall
  /\ \E bridgeInstructions \in SeqUpTo(Addresses, MaxTxInstructions),
        feeToken \in FeeTokens :
       libCall' =
         [fn |-> "buildSponsoredTransaction", threw |-> FALSE,
          feeToken |-> feeToken, solAdvanceLamports |-> 0,
          bridgeInstructions |-> bridgeInstructions,
          result |-> buildSponsoredTransaction(bridgeInstructions, feeToken)]
  /\ UNCHANGED appVars

\* the wire layout written out in replaceBlockhash: signatures, then the
\* message: version prefix (v0 only), header, accounts, blockhash, the rest
EncodeWire(f) ==
  <<f.numSigs>> \o Repeat(0, f.numSigs * SIGNATURE_BYTES)
    \o (IF f.isV0 THEN <<V0_PREFIX>> ELSE <<>>)
    \o <<f.numSigs, 0, 1>>
    \o <<f.numAccounts>> \o Repeat(f.accountByte, f.numAccounts * ADDRESS_BYTES)
    \o bs58Decode(f.blockhash)
    \o <<1, 0, 0, 0>>

WireFields ==
  [numSigs : 0..MaxWireSigs, isV0 : BOOLEAN, numAccounts : 1..MaxWireAccounts,
   accountByte : {0, 7}, blockhash : Blockhashes]

\* what the transaction and message decoders yield for the bytes of f
DecodeWire(f) ==
  [numSigs |-> f.numSigs, numAccounts |-> f.numAccounts,
   lifetimeToken |-> f.blockhash]

\* decoder outputs: the one for the bytes, and outputs that disagree with the
\* bytes in one count or in the blockhash (the case the sanity check is for)
DecodedViews(f) ==
  {DecodeWire(f)}
    \cup {[DecodeWire(f) EXCEPT !.numSigs = n] : n \in 0..MaxWireSigs}
    \cup {[DecodeWire(f) EXCEPT !.numAccounts = n] : n \in 1..MaxWireAccounts}
    \cup {[DecodeWire(f) EXCEPT !.lifetimeToken = b] : b \in Blockhashes}

\* replaceBlockhash(txBytes) on its own
ReplaceBlockhashCall ==
  /\ libCall = NoCall
  /\ \E f \in WireFields, blockhash \in Blockhashes :
       \E decoded \in DecodedViews(f) :
         libCall' =
           [fn |-> "replaceBlockhash", fields |-> f, txBytes |-> EncodeWire(f),
            decoded |-> decoded, blockhash |-> blockhash,
            outcome |-> replaceBlockhash(EncodeWire(f), decoded, blockhash)]
  /\ UNCHANGED appVars

NextBlockhash == ReplaceBlockhashCall

SpecBlockhash == Init /\ [][NextBlockhash]_vars

\* totalSponsorCost values: base fees, a priority fee, rent for a token
\* account or none, a DeBridge order rent advance or none
FeeCosts ==
  {adjustCostsForSponsoredMode(k * PriorityFeeStep, rent, advance) :
     k \in 0..MaxPrioritySteps, rent \in {0, RENT_EXEMPT_LAMPORTS},
     advance \in {0, DEBRIDGE_ORDER_RENT_LAMPORTS}}

\* calculateMinimumFee(costs) on its own, with the price the oracle gave, and
\* the amounts createFeeTransferInstructions derives from the two fees; the
\* fees are recorded as their number of smallest units. Each intermediate
\* Number of the code is a bound value here.
MinimumFeeCall ==
  /\ libCall = NoCall
  /\ \E totalCostLamports \in FeeCosts, solPriceUsd \in Prices :
       \E costSol \in {finalCostSol(totalCostLamports)} :
         \E fee \in {MinimumFeeFrom(costSol, solPriceUsd)} :
           \E feeInUsdc \in {DecimalToNumber(fee.feeInUsdc, BigFromInt(USDC_UNITS))},
              feeInSol \in {DecimalToNumber(fee.feeInSol, BigFromInt(LAMPORTS_PER_SOL))} :
             libCall' =
               [fn |-> "calculateMinimumFee",
                totalSponsorCost |-> totalCostLamports,
                solPriceUsd |-> solPriceUsd, fee |-> fee,
                usdcAmount |-> FeeTransferAmount(feeInUsdc, USDC_UNITS),
                lamports |-> FeeTransferAmount(feeInSol, LAMPORTS_PER_SOL)]
  /\ UNCHANGED appVars

NextFee == MinimumFeeCall

SpecFee == Init /\ [][NextFee]_vars

\* validateTransactionStructure on the instructions and account keys of a
\* decoded transaction
StructureCall ==
  /\ libCall = NoCall
  /\ \E tx \in WireTxs \ {GarbageTx} :
       libCall' = [fn |-> "validateTransactionStructure", tx |-> tx,
                   result |-> validateTransactionStructure(tx)]
  /\ UNCHANGED appVars

NextStructure == StructureCall

SpecStructure == Init /\ [][NextStructure]_vars

\* 10^18: one token of 18 decimals in raw units
TenTo18 == BigMul(BigFromInt(LAMPORTS_PER_SOL), BigFromInt(LAMPORTS_PER_SOL))

\* quoted and re-quoted destination amounts: 1000 against 1000 +- up to
\* MaxDriftUnits, and one 18-decimal token against 2% less and a few raw
\* units around that
DriftQuotes ==
  {[destAmount |-> BigFromInt(1000), freshDestAmount |-> BigFromInt(1000 + d)] :
     d \in (0 - MaxDriftUnits)..MaxDriftUnits}
    \cup
  {[destAmount |-> TenTo18,
    freshDestAmount |->
      BigSub(BigMulSmall(BigDivSmall(TenTo18, 100), 100 - MAX_QUOTE_DRIFT_PCT),
             BigFromInt(d))] : d \in 0..MaxDriftUnits}

\* the first step of prepareSwap: provider.validateQuote(quote), then
\* feeValidator.validateQuoteDrift(validation); QuoteDriftError unless it passes
DriftCall ==
  /\ libCall = NoCall
  /\ \E q \in DriftQuotes, expired \in BOOLEAN, requoteOk \in BOOLEAN :
       \E validation \in
            {validateQuote(q.destAmount, q.freshDestAmount, expired, requoteOk)} :
         libCall' = [fn |-> "validateQuote", quote |-> q, expired |-> expired,
                     requoteOk |-> requoteOk, validation |-> validation,
                     proceeds |-> validateQuoteDrift(validation)]
  /\ UNCHANGED appVars

NextDrift == DriftCall

SpecDrift == Init /\ [][NextDrift]_vars

(***************************************************************************)
(* FeeValidator.validateEconomicGuarantees(quote, userFee, sponsorCosts)   *)
(* for a USDC fee. Amounts are in micro-USD, costs in lamports.            *)
(***************************************************************************)
\* variant: the checks stop at the first violation
EconomicGuaranteeErrors_FirstOnly(userFee, totalSponsorCost, validUntil, cachedPrice, feeInUsdc) ==
  IF ~validateFeeCoverage(userFee.valueUSD, totalSponsorCost, cachedPrice)
  THEN {"User fee does not cover sponsor costs"}
  ELSE IF IsExpired(validUntil) THEN {"Quote has expired"}
  ELSE IF BigCmp(BigFromInt(userFee.amount), feeInUsdc) < 0 THEN {"Fee too low"}
  ELSE IF totalSponsorCost > MaxReasonableCostLamports
       THEN {"Sponsor costs unreasonably high"}
       ELSE {}

\* the errors pushed by the four checks; cachedPrice is the cache entry that
\* validateFeeCoverage reads, feeInUsdc the minimum calculateMinimumFee returned
EconomicGuaranteeErrors(userFee, totalSponsorCost, validUntil, cachedPrice, feeInUsdc) ==
  (IF ~validateFeeCoverage(userFee.valueUSD, totalSponsorCost, cachedPrice)
   THEN {"User fee does not cover sponsor costs"} ELSE {})
    \cup (IF IsExpired(validUntil) THEN {"Quote has expired"} ELSE {})
    \cup (IF BigCmp(BigFromInt(userFee.amount), feeInUsdc) < 0
          THEN {"Fee too low"} ELSE {})
    \cup (IF totalSponsorCost > MaxReasonableCostLamports
          THEN {"Sponsor costs unreasonably high"} ELSE {})

\* sponsor costs around the sanity ceiling, and the costs of the unit test
GuaranteeCosts ==
  {adjustCostsForSponsoredMode(SOLANA_BASE_FEE_LAMPORTS, 0, 0),
   MaxReasonableCostLamports, MaxReasonableCostLamports + 1}

\* fees at and one unit below the minimum for either price
GuaranteeFees(totalSponsorCost) ==
  {calculateMinimumFeeUsdc(totalSponsorCost, p) - d : p \in Prices, d \in {0, 1}}

GuaranteesResult(userFee, totalSponsorCost, validUntil, cachedPrice, feeInUsdc, errors) ==
  [fn |-> "validateEconomicGuarantees", threw |-> FALSE, userFee |-> userFee,
   totalSponsorCost |-> totalSponsorCost, validUntil |-> validUntil,
   calledAt |-> now, cachedPrice |-> cachedPrice, feeInUsdc |-> feeInUsdc,
   valid |-> errors = {}, errors |-> errors]

\* validateEconomicGuarantees on its own: the price lookup inside
\* calculateMinimumFee may refresh the cache, and its PriceOracleError leaves
\* the call without a result
GuaranteesCall ==
  /\ libCall = NoCall
  /\ \E fetchOk \in BOOLEAN, totalSponsorCost \in GuaranteeCosts,
        validFor \in {-1, 0, QUOTE_EXPIRY_SECONDS} :
       \E amount \in GuaranteeFees(totalSponsorCost), r \in {getSolPrice(fetchOk)} :
         /\ priceCache' = r.cache
         /\ IF r.price = 0
            THEN libCall' = [fn |-> "validateEconomicGuarantees", threw |-> TRUE]
            ELSE \E fee \in {MinimumFeeFrom(finalCostSol(totalSponsorCost), r.price)} :
                   libCall' =
                     GuaranteesResult(
                       [token |-> "USDC", amount |-> amount, valueUSD |-> amount],
                       totalSponsorCost, now + validFor, priceCache.price,
                       fee.feeInUsdc,
                       EconomicGuaranteeErrors(
                         [token |-> "USDC", amount |-> amount, valueUSD |-> amount],
                         totalSponsorCost, now + validFor, priceCache.price,
                         fee.feeInUsdc))
  /\ UNCHANGED <<now, oraclePrice, prepVars, execVars, monVars, quoteVars>>

NextGuarantees ==
  \/ Tick(PrepMaxTime)
  \/ OracleMove
  \/ PriceLookup
  \/ GuaranteesCall

SpecGuarantees == Init /\ [][NextGuarantees]_vars

(***************************************************************************)
(* FeeCalculator.getSolPrice, one call followed across its await; other    *)
(* callers (PriceLookup) run in between.                                   *)
(***************************************************************************)
\* cached && Date.now() - cached.timestamp < PRICE_CACHE_TTL
CacheIsFresh(cached) ==
  cached.price # 0 /\ (now - cached.timestamp) * 1000 < PRICE_CACHE_TTL

\* entry: the cache entry is read once; a fresh one is returned at once
PriceCallStart ==
  /\ libCall = NoCall
  /\ libCall' =
       [fn |-> "getSolPrice", cached |-> priceCache, refreshFailed |-> FALSE,
        threw |-> FALSE,
        pc |-> IF CacheIsFresh(priceCache) THEN "done" ELSE "fetching",
        price |-> IF CacheIsFresh(priceCache) THEN priceCache.price ELSE 0]
  /\ UNCHANGED appVars

\* variant: a failed refresh always ends in PriceOracleError
RefreshFailed_AlwaysThrows(lookup) ==
  [lookup EXCEPT !.pc = "done", !.refreshFailed = TRUE, !.threw = TRUE]

\* the catch branch: the entry read at the start if there was one, else
\* PriceOracleError
RefreshFailed(lookup) ==
  IF lookup.cached.price # 0
  THEN [lookup EXCEPT !.pc = "done", !.refreshFailed = TRUE,
                      !.price = lookup.cached.price]
  ELSE [lookup EXCEPT !.pc = "done", !.refreshFailed = TRUE, !.threw = TRUE]

\* fetchPythPriceOnchain settled: the price is cached and returned, or the
\* catch branch runs
PriceCallSettle ==
  /\ libCall.fn = "getSolPrice"
  /\ libCall.pc = "fetching"
  /\ \E fetchOk \in BOOLEAN :
       IF fetchOk
       THEN /\ priceCache' = [price |-> oraclePrice, timestamp |-> now]
            /\ libCall' = [libCall EXCEPT !.pc = "done", !.price = oraclePrice]
       ELSE /\ priceCache' = priceCache
            /\ libCall' = RefreshFailed(libCall)
  /\ UNCHANGED <<now, oraclePrice, prepVars, execVars, monVars, quoteVars>>

\* the caller has the outcome; the next lookup may start
PriceCallReturn ==
  /\ libCall.fn = "getSolPrice"
  /\ libCall.pc = "done"
  /\ libCall' = NoCall
  /\ UNCHANGED appVars

NextPrice ==
  \/ Tick(PrepMaxTime)
  \/ OracleMove
  \/ PriceLookup
  \/ PriceCallStart
  \/ PriceCallSettle
  \/ PriceCallReturn

SpecPrice == Init /\ [][NextPrice]_vars

(***************************************************************************)
(* Several requests inside getSolPrice at once: each is one lookup of its  *)
(* own, followed across its await.                                         *)
(***************************************************************************)
PriceCallers == {"a", "b"}

IdleLookup ==
  [pc |-> "idle", cached |-> [price |-> 0, timestamp |-> 0],
   refreshFailed |-> FALSE, threw |-> FALSE, price |-> 0, overlapped |-> FALSE]

\* the lookups of the callers
Lookups ==
  IF libCall.fn = "getSolPrice x2" THEN libCall.lookups
  ELSE [c \in PriceCallers |-> IdleLookup]

\* the oracle fetches awaited right now
FetchesInFlight == {c \in PriceCallers : Lookups[c].pc = "fetching"}

\* entry of caller c: the cache is read; a missing or stale entry starts a
\* fetch of this caller's own (overlapped: another fetch was in flight)
LookupStart(c) ==
  /\ libCall.fn \in {None, "getSolPrice x2"}
  /\ Lookups[c].pc = "idle"
  /\ libCall' =
       [fn |-> "getSolPrice x2",
        lookups |->
          [d \in PriceCallers |->
             IF d = c
             THEN IF CacheIsFresh(priceCache)
                  THEN [IdleLookup EXCEPT !.pc = "done", !.cached = priceCache,
                                          !.price = priceCache.price]
                  ELSE [IdleLookup EXCEPT !.pc = "fetching", !.cached = priceCache,
                                          !.overlapped = FetchesInFlight # {}]
             ELSE IF ~CacheIsFresh(priceCache) /\ d \in FetchesInFlight
                  THEN [Lookups[d] EXCEPT !.overlapped = TRUE]
                  ELSE Lookups[d]]]
  /\ UNCHANGED appVars

\* the fetch of caller c settled
LookupSettle(c) ==
  /\ c \in FetchesInFlight
  /\ \E fetchOk \in BOOLEAN :
       IF fetchOk
       THEN /\ priceCache' = [price |-> oraclePrice, timestamp |-> now]
            /\ libCall' = [libCall EXCEPT !.lookups[c].pc = "done",
                                          !.lookups[c].price = oraclePrice]
       ELSE /\ priceCache' = priceCache
            /\ libCall' = [libCall EXCEPT !.lookups[c] = RefreshFailed(Lookups[c])]
  /\ UNCHANGED <<now, oraclePrice, prepVars, execVars, monVars, quoteVars>>

\* caller c has its outcome and may look the price up again
LookupReturn(c) ==
  /\ libCall.fn = "getSolPrice x2"
  /\ Lookups[c].pc = "done"
  /\ libCall' = [libCall EXCEPT !.lookups[c] = IdleLookup]
  /\ UNCHANGED appVars

NextPriceCallers ==
  \/ Tick(PrepMaxTime)
  \/ OracleMove
  \/ \E c \in PriceCallers : LookupStart(c)
  \/ \E c \in PriceCallers : LookupSettle(c)
  \/ \E c \in PriceCallers : LookupReturn(c)

SpecPriceCallers == Init /\ [][NextPriceCallers]_vars

(***************************************************************************)
(* utils/retry: retryWithBackoff, isRetryableError, retryApiCall           *)
(***************************************************************************)
\* largest maxAttempts option tried
MaxRetryAttempts == 3
\* retryApiCall: maxAttempts
API_MAX_ATTEMPTS == 2

\* strings are sequences of characters here
UpperCase ==
    <<"A", "B", "C", "D", "E", "F", "G", "H", "I", "J", "K", "L", "M", "N",
    "O", "P", "Q", "R", "S", "T", "U", "V", "W", "X", "Y", "Z">>
LowerCase ==
    <<"a", "b", "c", "d", "e", "f", "g", "h", "i", "j", "k", "l", "m", "n",
    "o", "p", "q", "r", "s", "t", "u", "v", "w", "x", "y", "z">>

toLowerCase(s) ==
  [i \in 1..Len(s) |->
     IF \E k \in 1..Len(UpperCase) : UpperCase[k] = s[i]
     THEN LowerCase[CHOOSE k \in 1..Len(UpperCase) : UpperCase[k] = s[i]]
     ELSE s[i]]

includes(s, sub) ==
  \E i \in 1..(Len(s) - Len(sub) + 1) : SubSeq(s, i, i + Len(sub) - 1) = sub

\* the message fragments isRetryableError looks for
RetryableFragments ==
  {<<"n", "e", "t", "w", "o", "r", "k">>,
   <<"t", "i", "m", "e", "o", "u", "t">>,
   <<"e", "c", "o", "n", "n", "r", "e", "s", "e", "t">>,
   <<"e", "n", "o", "t", "f", "o", "u", "n", "d">>,
   <<"e", "t", "i", "m", "e", "d", "o", "u", "t">>}

\* a thrown value: its class, message, the status / statusCode properties
\* (0 = the property is absent), the errorCode property (None = absent) and
\* the class of its cause
Thrown(name, message, status, statusCode, errorCode, cause) ==
  [name |-> name, message |-> message, status |-> status,
   statusCode |-> statusCode, errorCode |-> errorCode, cause |-> cause]

\* new BridgeError('Failed to build transaction from DeBridge', name, {cause})
BuildBridgeError(cause) ==
  Thrown("BridgeError",
         <<"F", "a", "i", "l", "e", "d", " ", "t", "o", " ", "b", "u", "i",
         "l", "d", " ", "t", "r", "a", "n", "s", "a", "c", "t", "i", "o",
         "n", " ", "f", "r", "o", "m", " ", "D", "e", "B", "r", "i", "d",
         "g", "e">>,
         0, 502, "BRIDGE_ERROR", cause.name)

\* what an attempt may throw
ThrownValues ==
  {Thrown("RetryableError", <<"b", "u", "s", "y">>, 0, 0, None, None),
   Thrown("Error", <<"N", "e", "t", "w", "o", "r", "k", " ", "d", "o", "w",
        "n">>, 0, 0, None, None),
   Thrown("Error", <<"b", "o", "o", "m">>, 0, 0, None, None),
   Thrown("Error", <<"c", "o", "n", "n", "e", "c", "t", " ", "E", "T", "I",
        "M", "E", "D", "O", "U", "T">>, 0, 0, None, None),
   Thrown("AxiosError", <<"B", "a", "d", " ", "R", "e", "q", "u", "e", "s",
        "t">>, 400, 0, None, None),
   Thrown("AxiosError", <<"T", "o", "o", " ", "M", "a", "n", "y", " ", "R",
        "e", "q", "u", "e", "s", "t", "s">>, 429, 0, None, None),
   Thrown("ValidationError", <<"b", "a", "d", " ", "i", "n", "p", "u", "t">>, 0, 400, "VALIDATION_ERROR", None)}

isRetryableError(error) ==
  \/ error.name = "RetryableError"
  \/ \E fragment \in RetryableFragments : includes(toLowerCase(error.message), fragment)
  \/ LET statusCode == IF error.status # 0 THEN error.status ELSE error.statusCode
     IN /\ statusCode # 0
        /\ \/ statusCode >= 500
           \/ statusCode \in {408, 429, 502, 503, 504}

\* the shouldRetry options tried: the default, isRetryableError, and one that
\* gives up on every error
ShouldRetryOptions == {"() => true", "isRetryableError", "() => false"}

shouldRetry(option, error, attempt) ==
  CASE option = "() => true" -> TRUE
    [] option = "isRetryableError" -> isRetryableError(error)
    [] option = "() => false" -> FALSE

\* no error yet (lastError undefined), and the outcome of an attempt that
\* returned
NoError == [name |-> None]
Returned == [name |-> "returned"]

\* new MaxRetriesExceededError(message, opts.maxAttempts, lastError)
MaxRetriesExceededError(attempts, lastError) ==
  [name |-> "MaxRetriesExceededError", attempts |-> attempts,
   lastError |-> lastError]

\* a retryWithBackoff call at the top of its loop (attempt = 1)
RetryLoop(op, maxAttempts, option) ==
  [fn |-> "retryWithBackoff", op |-> op, maxAttempts |-> maxAttempts,
   shouldRetry |-> option, attempt |-> 1, lastError |-> NoError,
   invocations |-> 0, outcomes |-> <<>>, onRetry |-> <<>>,
   pc |-> "loop", result |-> 0, error |-> NoError]

\* variant: the loop admits one attempt more
LoopTest_OneMore(call) ==
  IF call.attempt <= call.maxAttempts + 1
  THEN [call EXCEPT !.pc = "calling", !.invocations = @ + 1]
  ELSE [call EXCEPT !.pc = "threw",
          !.error = MaxRetriesExceededError(call.maxAttempts, call.lastError)]

\* the loop condition; fn() is invoked, or the loop is left.  The value an
\* attempt returns is written as the number of the attempt.
LoopTest(call) ==
  IF call.attempt <= call.maxAttempts
  THEN [call EXCEPT !.pc = "calling", !.invocations = @ + 1]
  ELSE [call EXCEPT !.pc = "threw",
          !.error = MaxRetriesExceededError(call.maxAttempts, call.lastError)]

\* attempt >= opts.maxAttempts
AttemptsExhausted(call) == call.attempt >= call.maxAttempts

\* variant: the exhaustion check comes before shouldRetry
AttemptFailed_ExhaustionFirst(call, error) ==
  IF AttemptsExhausted(call)
  THEN [call EXCEPT !.pc = "threw", !.lastError = error,
          !.outcomes = Append(@, error),
          !.error = MaxRetriesExceededError(call.maxAttempts, error)]
  ELSE IF ~shouldRetry(call.shouldRetry, error, call.attempt)
  THEN [call EXCEPT !.pc = "threw", !.lastError = error,
          !.outcomes = Append(@, error), !.error = error]
  ELSE [call EXCEPT !.pc = "waiting", !.lastError = error,
          !.outcomes = Append(@, error),
          !.onRetry = Append(@, [error |-> error, attempt |-> call.attempt])]

\* the catch block: rethrow, leave the loop for MaxRetriesExceededError, or
\* call onRetry and wait
AttemptFailed(call, error) ==
  IF ~shouldRetry(call.shouldRetry, error, call.attempt)
  THEN [call EXCEPT !.pc = "threw", !.lastError = error,
          !.outcomes = Append(@, error), !.error = error]
  ELSE IF AttemptsExhausted(call)
  THEN [call EXCEPT !.pc = "threw", !.lastError = error,
          !.outcomes = Append(@, error),
          !.error = MaxRetriesExceededError(call.maxAttempts, error)]
  ELSE [call EXCEPT !.pc = "waiting", !.lastError = error,
          !.outcomes = Append(@, error),
          !.onRetry = Append(@, [error |-> error, attempt |-> call.attempt])]

\* return await fn()
AttemptSucceeded(call) ==
  [call EXCEPT !.pc = "returned", !.outcomes = Append(@, Returned),
     !.result = call.attempt]

\* what fn throws: anything for a caller's own fn; buildTransaction's fn
\* wraps whatever went wrong in a BridgeError
ThrownBy(op) ==
  IF op = "DeBridge.buildTransaction"
  THEN {BuildBridgeError(cause) : cause \in ThrownValues}
  ELSE ThrownValues \cup {BuildBridgeError(cause) : cause \in ThrownValues}

\* retryWithBackoff(fn, options) is called, or provider.buildTransaction,
\* which is retryApiCall(fn, 'DeBridge.buildTransaction')
RetryStart ==
  /\ libCall = NoCall
  /\ \/ \E maxAttempts \in 0..MaxRetryAttempts, option \in ShouldRetryOptions :
          libCall' = LoopTest(RetryLoop("fn", maxAttempts, option))
     \/ libCall' = LoopTest(RetryLoop("DeBridge.buildTransaction",
                                      API_MAX_ATTEMPTS, "isRetryableError"))
  /\ UNCHANGED appVars

\* fn() settled
AttemptSettle ==
  /\ libCall.fn = "retryWithBackoff"
  /\ libCall.pc = "calling"
  /\ \/ libCall' = AttemptSucceeded(libCall)
     \/ \E error \in ThrownBy(libCall.op) : libCall' = AttemptFailed(libCall, error)
  /\ UNCHANGED appVars

\* the backoff timer fired: attempt++ and the loop test
BackoffElapsed ==
  /\ libCall.fn = "retryWithBackoff"
  /\ libCall.pc = "waiting"
  /\ libCall' = LoopTest([libCall EXCEPT !.attempt = @ + 1])
  /\ UNCHANGED appVars

NextRetry ==
  \/ RetryStart
  \/ AttemptSettle
  \/ BackoffElapsed

SpecRetry == Init /\ [][NextRetry]_vars

(***************************************************************************)
(* What a caller sees of a failure: the catch blocks of prepareSwap and    *)
(* executeSwap, and toErrorResponse in the API routes.                     *)
(***************************************************************************)
\* the classes that extend AppError
AppErrorClasses ==
  {"AppError", "ValidationError", "NotFoundError", "QuoteExpiredError",
   "PriceOracleError", "BridgeError", "TransactionValidationError"}

\* error instanceof AppError
InstanceOfAppError(error) == error.name \in AppErrorClasses

\* error instanceof Error: everything but a thrown plain object
InstanceOfError(error) == error.name # "Object"

\* isAppError: instanceof, or an Error with errorCode and statusCode
isAppError(error) ==
  \/ InstanceOfAppError(error)
  \/ InstanceOfError(error) /\ error.errorCode # None /\ error.statusCode # 0

GenericMessage ==
  <<"A", "n", " ", "u", "n", "e", "x", "p", "e", "c", "t", "e", "d", " ",
  "e", "r", "r", "o", "r", " ", "o", "c", "c", "u", "r", "r", "e", "d",
  ".", " ", "P", "l", "e", "a", "s", "e", " ", "t", "r", "y", " ", "a",
  "g", "a", "i", "n", ".">>

FailedToPrepare ==
  <<"F", "a", "i", "l", "e", "d", " ", "t", "o", " ", "p", "r", "e", "p",
  "a", "r", "e", " ", "s", "w", "a", "p">>

FailedToExecute ==
  <<"F", "a", "i", "l", "e", "d", " ", "t", "o", " ", "e", "x", "e", "c",
  "u", "t", "e", " ", "s", "w", "a", "p">>

toErrorResponse(error) ==
  IF isAppError(error)
  THEN [success |-> FALSE, error |-> error.message, errorCode |-> error.errorCode]
  ELSE [success |-> FALSE, error |-> GenericMessage, errorCode |-> "INTERNAL_ERROR"]

\* the catch block of prepareSwap: what the call throws
prepareSwapCatch(error) ==
  IF InstanceOfAppError(error)
  THEN [threw |-> TRUE, error |-> error]
  ELSE [threw |-> TRUE,
        error |-> Thrown("BridgeError", FailedToPrepare, 0, 502, "BRIDGE_ERROR",
                         error.name)]

\* the catch block of executeSwap: an AppError is thrown on, anything else
\* becomes a returned { status: 'failed', error }
executeSwapCatch(error) ==
  IF InstanceOfAppError(error)
  THEN [threw |-> TRUE, error |-> error]
  ELSE [threw |-> FALSE,
        result |-> [status |-> "failed",
                    error |-> IF InstanceOfError(error) THEN error.message
                              ELSE FailedToExecute]]

\* where a failure arises: inside the try block of prepareSwap or of
\* executeSwap, or in the route handler itself
FailureSites == {"prepareSwap", "executeSwap", "route"}

\* what may be thrown inside the orchestrator: its own AppErrors, and errors
\* of the database client, the retry helper and the runtime
InternalFailures ==
  ThrownValues \cup {BuildBridgeError(cause) : cause \in ThrownValues} \cup
  {Thrown("PriceOracleError", <<"S", "O", "L", " ", "p", "r", "i", "c",
       "e", " ", "u", "n", "a", "v", "a", "i", "l", "a", "b", "l", "e">>,
          0, 503, "PRICE_ORACLE_ERROR", "Error"),
   Thrown("TransactionValidationError", <<"T", "r", "a", "n", "s", "a",
        "c", "t", "i", "o", "n", " ", "v", "a", "l", "i", "d", "a", "t",
        "i", "o", "n", " ", "f", "a", "i", "l", "e", "d">>,
          0, 500, "TRANSACTION_ERROR", None),
   Thrown("PrismaClientKnownRequestError", <<"U", "n", "i", "q", "u", "e",
        " ", "c", "o", "n", "s", "t", "r", "a", "i", "n", "t", " ", "f",
        "a", "i", "l", "e", "d", " ", "o", "n", " ", "t", "h", "e", " ",
        "f", "i", "e", "l", "d", "s", ":", " ", "(", "i", "d", ")">>,
          0, 0, None, None),
   Thrown("MaxRetriesExceededError", <<"F", "a", "i", "l", "e", "d", " ",
        "a", "f", "t", "e", "r", " ", "2", " ", "a", "t", "t", "e", "m",
        "p", "t", "s">>,
          0, 0, None, "BridgeError"),
   Thrown("TypeError", <<"C", "a", "n", "n", "o", "t", " ", "r", "e", "a",
        "d", " ", "p", "r", "o", "p", "e", "r", "t", "i", "e", "s", " ",
        "o", "f", " ", "u", "n", "d", "e", "f", "i", "n", "e", "d">>,
          0, 0, None, None),
   Thrown("NotFoundError", <<"P", "r", "o", "v", "i", "d", "e", "r", " ", "n", "o", "t", " ", "f", "o", "u", "n", "d">>,
          0, 404, "NOT_FOUND", None),
   Thrown("QuoteExpiredError", <<"Q", "u", "o", "t", "e", " ", "e", "x", "p", "i", "r", "e", "d", ".">>,
          0, 400, "QUOTE_ERROR", None),
   Thrown("Object", <<>>, 0, 0, None, None)}

\* what the route handler itself may throw: parseRequest's ValidationError,
\* request.json()'s SyntaxError
RouteFailures ==
  {Thrown("ValidationError", <<"s", "w", "a", "p", "I", "d", ":", " ", "R",
       "e", "q", "u", "i", "r", "e", "d">>,
          0, 400, "VALIDATION_ERROR", None),
   Thrown("SyntaxError", <<"U", "n", "e", "x", "p", "e", "c", "t", "e",
        "d", " ", "e", "n", "d", " ", "o", "f", " ", "J", "S", "O", "N",
        " ", "i", "n", "p", "u", "t">>,
          0, 0, None, None)}

\* something is thrown at one of the sites
FailureRaised ==
  /\ libCall = NoCall
  /\ \E site \in FailureSites :
       \E error \in (IF site = "route" THEN RouteFailures ELSE InternalFailures) :
         libCall' = [fn |-> "failure", site |-> site, thrown |-> error,
                     pc |-> "thrown", outcome |-> [threw |-> TRUE, error |-> error],
                     response |-> [success |-> TRUE]]
  /\ UNCHANGED appVars

\* the catch block of the orchestrator method the failure arose in
OrchestratorCatch ==
  /\ libCall.fn = "failure"
  /\ libCall.pc = "thrown"
  /\ libCall' =
       [libCall EXCEPT !.pc = "handled",
          !.outcome =
            CASE libCall.site = "prepareSwap" -> prepareSwapCatch(libCall.thrown)
              [] libCall.site = "executeSwap" -> executeSwapCatch(libCall.thrown)
              [] libCall.site = "route" -> [threw |-> TRUE, error |-> libCall.thrown]]
  /\ UNCHANGED appVars

\* the route handler answers: toErrorResponse for what was thrown, the
\* result's own fields for what executeSwap returned
RouteRespond ==
  /\ libCall.fn = "failure"
  /\ libCall.pc = "handled"
  /\ libCall' =
       [libCall EXCEPT !.pc = "responded",
          !.response =
            IF libCall.outcome.threw
            THEN toErrorResponse(libCall.outcome.error)
            ELSE [success |-> FALSE, error |-> libCall.outcome.result.error,
                  errorCode |-> None]]
  /\ UNCHANGED appVars

NextFailure ==
  \/ FailureRaised
  \/ OrchestratorCatch
  \/ RouteRespond

SpecFailure == Init /\ [][NextFailure]_vars

(***************************************************************************)
(* SwapOrchestrator.getSwapStatus, followed across its two awaits          *)
(***************************************************************************)
\* swap.status.toLowerCase() on the values of the SwapStatus enum
StatusToLowerCase(status) ==
  CASE status = "SUBMITTED" -> "submitted"
    [] status = "BRIDGING" -> "bridging"
    [] status = "COMPLETED" -> "completed"
    [] status = "FAILED" -> "failed"

\* what provider.getStatus may report
ProviderStatuses == {"pending", "processing", "completed", "failed"}

NoRow == [status |-> None, solanaSignature |-> FALSE, errorMessage |-> FALSE]

StatusQuery(id) ==
  [fn |-> "getSwapStatus", id |-> id, pc |-> "findById", swap |-> NoRow,
   monitored |-> FALSE, registered |-> FALSE, providerStatus |-> None,
   threw |-> None, status |-> None]

\* the answer built from the row alone
DurableAnswer(query) ==
  [query EXCEPT !.pc = "done", !.status = StatusToLowerCase(query.swap.status)]

\* variant: a failing provider call fails the query
ProviderAnswer_FailsThrough(query, outcome) ==
  IF outcome = "throws"
  THEN [query EXCEPT !.pc = "done", !.providerStatus = outcome,
                     !.threw = "BridgeError"]
  ELSE [query EXCEPT !.pc = "done", !.providerStatus = outcome,
                     !.status = outcome]

\* provider.getStatus settled: its status is returned; a rejection is logged
\* and the row's status returned
ProviderAnswer(query, outcome) ==
  IF outcome = "throws"
  THEN [DurableAnswer(query) EXCEPT !.providerStatus = outcome]
  ELSE [query EXCEPT !.pc = "done", !.providerStatus = outcome,
                     !.status = outcome]

\* getSwapStatus(id) is called: swapRepository.findById
StatusStart ==
  /\ libCall = NoCall
  /\ \E id \in SwapIds \cup {UnknownId} : libCall' = StatusQuery(id)
  /\ UNCHANGED appVars

\* findById settled: not found, or the provider is asked (for a SUBMITTED or
\* BRIDGING row whose provider is registered), or the row is answered from
StatusFound ==
  /\ libCall.fn = "getSwapStatus"
  /\ libCall.pc = "findById"
  /\ \E registered \in BOOLEAN :
       LET id == libCall.id
           query == IF Has(db, id)
                    THEN [libCall EXCEPT !.swap = db[id],
                            !.registered = registered,
                            !.monitored = activeMonitors[id] # 0]
                    ELSE libCall
       IN libCall' =
            IF ~Has(db, id)
            THEN [query EXCEPT !.pc = "done", !.threw = "NotFoundError"]
            ELSE IF db[id].status \in {"SUBMITTED", "BRIDGING"} /\ registered
            THEN [query EXCEPT !.pc = "getStatus"]
            ELSE DurableAnswer(query)
  /\ UNCHANGED appVars

StatusSettle ==
  /\ libCall.fn = "getSwapStatus"
  /\ libCall.pc = "getStatus"
  /\ \E outcome \in ProviderStatuses \cup {"throws"} :
       libCall' = ProviderAnswer(libCall, outcome)
  /\ UNCHANGED appVars

\* one swap is prepared, executed and monitored while its status is queried
NextStatus ==
  \/ PrepareNext(FreshQuotes)
  \/ ExecStart(1)
  \/ ExecCreate(1)
  \/ ExecSend(1)
  \/ ExecUpdate(1)
  \/ \E m \in 1..Len(monitors) : TimerFire(m, SwapMaxPolls, SwapMaxInFlight)
  \/ \E p \in polls : PollStatus(p)
  \/ \E p \in polls : PollUpdate(p)
  \/ \E id \in SwapIds : stopMonitoring(id)
  \/ StatusStart
  \/ StatusFound
  \/ StatusSettle

SpecStatus == Init /\ [][NextStatus]_vars

(***************************************************************************)
(* stopMonitoring called for any id, with or without an active monitor     *)
(***************************************************************************)
\* this.activeMonitors.get(swapId) is set
HasController(id) == id \in SwapIds /\ activeMonitors[id] # 0

\* stopMonitoring(id): libCall holds the id of the latest call (nth tells two
\* calls for the same id apart)
StopMonitoringCall ==
  /\ libCall.fn \in {None, "stopMonitoring"}
  /\ \E id \in SwapIds \cup {UnknownId} :
       /\ libCall' = [fn |-> "stopMonitoring", id |-> id,
                      nth |-> IF libCall.fn = None THEN 0 ELSE 1 - libCall.nth]
       /\ IF HasController(id)
          THEN /\ monitors' = Abort(monitors, activeMonitors[id])
               /\ activeMonitors' = CleanupActive(activeMonitors, id)
          ELSE UNCHANGED <<monitors, activeMonitors>>
  /\ UNCHANGED <<now, feeVars, prepVars, execVars, polls, quoteVars>>

\* two swaps are prepared, executed and polled while monitors are stopped
NextStop ==
  \/ PrepareNext(FreshQuotes)
  \/ \E c \in Calls : ExecStart(c)
  \/ \E c \in Calls : ExecCreate(c)
  \/ \E c \in Calls : ExecSend(c)
  \/ \E c \in Calls : ExecUpdate(c)
  \/ \E m \in 1..Len(monitors) : TimerFire(m, SwapMaxPolls, SwapMaxInFlight)
  \/ \E p \in polls : PollStatus(p)
  \/ \E p \in polls : PollUpdate(p)
  \/ StopMonitoringCall

SpecStop == Init /\ [][NextStop]_vars

(***************************************************************************)
(* The process-wide orchestrator: getSwapOrchestrator, initializeApp and   *)
(* initializeSwapOrchestrator, each request followed across its awaits.    *)
(* libCall holds globalThis.__swapOrchestrator (0 = unset; instances are   *)
(* numbered in the order they are constructed), the initialized flag, the  *)
(* requests, and the instance whose pending cache holds the prepared swap. *)
(***************************************************************************)
\* instances constructed at most, over one behaviour
MaxInstances == 3

Requests == {"r1", "r2"}

IdleRequest == [pc |-> "idle", op |-> None, got |-> 0, afterPrepare |-> FALSE]

Process ==
  IF libCall.fn = "getSwapOrchestrator" THEN libCall
  ELSE [fn |-> "getSwapOrchestrator", global |-> 0, constructed |-> 0,
        initialized |-> FALSE, preparedOn |-> 0,
        requests |-> [r \in Requests |-> IdleRequest]]

\* getSwapOrchestrator up to its await: the instance there is, or
\* SwapOrchestrator.create is awaited
GetOrchestratorStart(r) ==
  /\ libCall.fn \in {None, "getSwapOrchestrator"}
  /\ Process.requests[r].pc = "idle"
  /\ libCall' =
       [Process EXCEPT !.requests[r] =
          IF Process.global # 0
          THEN [pc |-> "done", op |-> "getSwapOrchestrator", got |-> Process.global,
                afterPrepare |-> Process.preparedOn # 0]
          ELSE [pc |-> "create", op |-> "getSwapOrchestrator", got |-> 0,
                afterPrepare |-> Process.preparedOn # 0]]
  /\ UNCHANGED appVars

\* initializeApp up to its first await: nothing to do when initialized,
\* otherwise fetchSupportedTokens and then initializeSwapOrchestrator
InitializeAppStart(r) ==
  /\ libCall.fn \in {None, "getSwapOrchestrator"}
  /\ Process.requests[r].pc = "idle"
  /\ libCall' =
       [Process EXCEPT !.requests[r] =
          IF Process.initialized
          THEN [IdleRequest EXCEPT !.pc = "done", !.op = "initializeApp"]
          ELSE [IdleRequest EXCEPT !.pc = "create", !.op = "initializeApp"]]
  /\ UNCHANGED appVars

\* SwapOrchestrator.create settled: the new instance is stored in the global
\* (and returned, or initialized is set)
OrchestratorCreated(r) ==
  /\ libCall.fn = "getSwapOrchestrator"
  /\ libCall.requests[r].pc = "create"
  /\ libCall.constructed < MaxInstances
  /\ libCall' =
       [libCall EXCEPT
          !.constructed = @ + 1,
          !.global = libCall.constructed + 1,
          !.initialized = @ \/ libCall.requests[r].op = "initializeApp",
          !.requests[r].pc = "done",
          !.requests[r].got =
            IF libCall.requests[r].op = "getSwapOrchestrator"
            THEN libCall.constructed + 1 ELSE 0]
  /\ UNCHANGED appVars

\* a request that got an orchestrator prepares the swap on it: the entry is
\* in the pending cache of that instance
PrepareOnInstance(r) ==
  /\ libCall.fn = "getSwapOrchestrator"
  /\ libCall.requests[r].pc = "done"
  /\ libCall.requests[r].got # 0
  /\ libCall.preparedOn = 0
  /\ libCall' = [libCall EXCEPT !.preparedOn = libCall.requests[r].got,
                                !.requests[r] = IdleRequest]
  /\ UNCHANGED appVars

\* the request is over
RequestDone(r) ==
  /\ libCall.fn = "getSwapOrchestrator"
  /\ libCall.requests[r].pc = "done"
  /\ libCall' = [libCall EXCEPT !.requests[r] = IdleRequest]
  /\ UNCHANGED appVars

NextProcess ==
  \/ \E r \in Requests : GetOrchestratorStart(r)
  \/ \E r \in Requests : InitializeAppStart(r)
  \/ \E r \in Requests : OrchestratorCreated(r)
  \/ \E r \in Requests : PrepareOnInstance(r)
  \/ \E r \in Requests : RequestDone(r)

SpecProcess == Init /\ [][NextProcess]_vars

(***************************************************************************)
(* CircuitBreaker (lib/utils/circuit-breaker.ts) on its own: one breaker,  *)
(* calls passing through execute() that overlap, the clock, and the two    *)
(* manual operations.  libCall holds the breaker's fields, the calls       *)
(* awaiting their function, and three history fields: the last event, the  *)
(* state the breaker was in before it, streak, the number of failures      *)
(* completed since the last success or reset(), and halfOpenSuccesses, the *)
(* number of successes completed in HALF_OPEN since the last failure or    *)
(* reset() and since the breaker was last CLOSED.                          *)
(***************************************************************************)
\* thresholds a breaker may be configured with, and overlapping calls
MaxFailureThreshold == 3
MaxSuccessThreshold == 2
MaxBreakerCalls == 2
\* CircuitBreakerPresets.externalApi.timeout, milliseconds
BREAKER_TIMEOUT == 60000

\* Date.now(), milliseconds
DateNow == now * 1000

NewBreaker(failureThreshold, successThreshold) ==
  [fn |-> "CircuitBreaker", state |-> "CLOSED", failureCount |-> 0,
   successCount |-> 0, nextAttemptTime |-> 0,
   failureThreshold |-> failureThreshold, successThreshold |-> successThreshold,
   inFlight |-> 0, event |-> "created", prevState |-> "CLOSED", streak |-> 0,
   halfOpenSuccesses |-> 0]

\* variant: entering OPEN keeps the next-attempt time it finds
transitionTo_KeepsDeadline(breaker, newState) ==
  IF breaker.state = newState THEN breaker
  ELSE [breaker EXCEPT !.state = newState]

transitionTo(breaker, newState) ==
  IF breaker.state = newState THEN breaker
  ELSE [breaker EXCEPT !.state = newState,
                       !.nextAttemptTime = IF newState = "OPEN"
                                           THEN DateNow + BREAKER_TIMEOUT ELSE @]

\* variant: the first success in HALF_OPEN closes the breaker
onSuccess_ClosesAtOnce(breaker) ==
  LET cleared == [breaker EXCEPT !.failureCount = 0]
  IN IF cleared.state = "HALF_OPEN"
     THEN [transitionTo(cleared, "CLOSED") EXCEPT !.successCount = 0]
     ELSE cleared

onSuccess(breaker) ==
  LET cleared == [breaker EXCEPT !.failureCount = 0]
      counted == [cleared EXCEPT !.successCount = @ + 1]
  IN IF cleared.state = "HALF_OPEN"
     THEN IF counted.successCount >= counted.successThreshold
          THEN [transitionTo(counted, "CLOSED") EXCEPT !.successCount = 0]
          ELSE counted
     ELSE cleared

\* variant: the threshold has to be passed, not reached
onFailure_PastThreshold(breaker) ==
  LET counted == [breaker EXCEPT !.failureCount = @ + 1, !.successCount = 0]
  IN IF counted.state = "HALF_OPEN" THEN transitionTo(counted, "OPEN")
     ELSE IF counted.failureCount > counted.failureThreshold
          THEN transitionTo(counted, "OPEN")
          ELSE counted

onFailure(breaker) ==
  LET counted == [breaker EXCEPT !.failureCount = @ + 1, !.successCount = 0]
  IN IF counted.state = "HALF_OPEN" THEN transitionTo(counted, "OPEN")
     ELSE IF counted.failureCount >= counted.failureThreshold
          THEN transitionTo(counted, "OPEN")
          ELSE counted

BreakerCreate ==
  /\ libCall = NoCall
  /\ \E ft \in 1..MaxFailureThreshold, st \in 1..MaxSuccessThreshold :
       libCall' = NewBreaker(ft, st)
  /\ UNCHANGED appVars

\* variant: a rejected call is counted as a failure
ExecuteStart_RejectCounts ==
  /\ libCall.fn = "CircuitBreaker"
  /\ libCall.inFlight < MaxBreakerCalls
  /\ IF libCall.state = "OPEN" /\ DateNow < libCall.nextAttemptTime
     THEN libCall' = [libCall EXCEPT !.event = "rejected",
                                     !.prevState = libCall.state,
                                     !.failureCount = @ + 1]
     ELSE LET entered == IF libCall.state = "OPEN"
                         THEN transitionTo(libCall, "HALF_OPEN") ELSE libCall
          IN libCall' = [entered EXCEPT !.inFlight = @ + 1, !.event = "started",
                                        !.prevState = libCall.state,
                                        !.halfOpenSuccesses =
                                           IF libCall.state = "CLOSED" THEN 0 ELSE @]
  /\ UNCHANGED appVars

\* execute() up to the await of fn: rejected while OPEN before the timeout,
\* HALF_OPEN once the timeout has passed
ExecuteStart ==
  /\ libCall.fn = "CircuitBreaker"
  /\ libCall.inFlight < MaxBreakerCalls
  /\ IF libCall.state = "OPEN" /\ DateNow < libCall.nextAttemptTime
     THEN libCall' = [libCall EXCEPT !.event = "rejected",
                                     !.prevState = libCall.state]
     ELSE LET entered == IF libCall.state = "OPEN"
                         THEN transitionTo(libCall, "HALF_OPEN") ELSE libCall
          IN libCall' = [entered EXCEPT !.inFlight = @ + 1, !.event = "started",
                                        !.prevState = libCall.state,
                                        !.halfOpenSuccesses =
                                           IF libCall.state = "CLOSED" THEN 0 ELSE @]
  /\ UNCHANGED appVars

\* execute() after the await: fn returned (ok) or threw
ExecuteSettle ==
  /\ libCall.fn = "CircuitBreaker"
  /\ libCall.inFlight > 0
  /\ \E ok \in BOOLEAN :
       LET settled == [libCall EXCEPT !.inFlight = @ - 1]
           after == IF ok THEN onSuccess(settled) ELSE onFailure(settled)
       IN libCall' = [after EXCEPT !.event = IF ok THEN "success" ELSE "failure",
                                   !.prevState = libCall.state,
                                   !.streak = IF ok THEN 0 ELSE @ + 1,
                                   !.halfOpenSuccesses =
                                      IF ~ok \/ libCall.state = "CLOSED" THEN 0
                                      ELSE IF libCall.state = "HALF_OPEN"
                                           THEN @ + 1 ELSE @]
  /\ UNCHANGED appVars

BreakerReset ==
  /\ libCall.fn = "CircuitBreaker"
  /\ libCall' = [transitionTo(libCall, "CLOSED") EXCEPT
                   !.failureCount = 0, !.successCount = 0, !.nextAttemptTime = 0,
                   !.event = "reset", !.prevState = libCall.state, !.streak = 0,
                   !.halfOpenSuccesses = 0]
  /\ UNCHANGED appVars

BreakerOpen ==
  /\ libCall.fn = "CircuitBreaker"
  /\ libCall' = [transitionTo(libCall, "OPEN") EXCEPT
                   !.event = "open", !.prevState = libCall.state,
                   !.halfOpenSuccesses = IF libCall.state = "CLOSED" THEN 0 ELSE @]
  /\ UNCHANGED appVars

NextBreaker ==
  \/ BreakerCreate
  \/ ExecuteStart
  \/ ExecuteSettle
  \/ BreakerReset
  \/ BreakerOpen
  \/ Tick(PrepMaxTime)

SpecBreaker == Init /\ [][NextBreaker]_vars

(***************************************************************************)
(* SlidingWindowRateLimiter.check (lib/middleware/rate-limiter.ts) for one *)
(* client key on a rate-limited path: concurrent check calls, the stored   *)
(* timestamps, the clock.  libCall holds the tier limit, the stored array, *)
(* each call's position and locals, and allowedAt, the timestamps of the   *)
(* requests check has allowed so far.                                      *)
(***************************************************************************)
\* the tier's limit is drawn from 1..MaxTierLimit; check calls that overlap,
\* and requests in one run
MaxTierLimit == 2
MaxCheckCalls == 2
MaxRequests == 4
\* windowMs of every limited tier
RATE_WINDOW_MS == 60000

CheckCalls == 1..MaxCheckCalls

IdleCheck == [pc |-> "idle", now |-> 0, timestamps |-> <<>>, allowed |-> FALSE]

\* timestamps.filter((ts) => ts > windowStart)
validTimestamps(timestamps, windowStart) ==
  SelectSeq(timestamps, LAMBDA ts : ts > windowStart)

LimiterCreate ==
  /\ libCall = NoCall
  /\ \E limit \in 1..MaxTierLimit :
       libCall' = [fn |-> "RateLimiter", limit |-> limit, storage |-> <<>>,
                   checks |-> [c \in CheckCalls |-> IdleCheck],
                   allowedAt |-> <<>>, requests |-> 0]
  /\ UNCHANGED appVars

\* check up to the await of storage.get: now is taken and MemoryStorage.get
\* reads the cache.  (An entry is stored with ttl windowMs; once it has
\* lapsed every timestamp in it is outside the window, so reading an empty
\* array and filtering a lapsed one give the same validTimestamps.)
CheckStart(c) ==
  /\ libCall.fn = "RateLimiter"
  /\ libCall.checks[c].pc = "idle"
  /\ libCall.requests < MaxRequests
  /\ libCall' = [libCall EXCEPT
                   !.requests = @ + 1,
                   !.checks[c] = [pc |-> "get", now |-> DateNow,
                                  timestamps |-> libCall.storage,
                                  allowed |-> FALSE]]
  /\ UNCHANGED appVars

\* check after storage.get resolved: filter, decide, and for an allowed
\* request MemoryStorage.set writes validTimestamps and now
CheckSettle(c) ==
  /\ libCall.fn = "RateLimiter"
  /\ libCall.checks[c].pc = "get"
  /\ LET call == libCall.checks[c]
         valid == validTimestamps(call.timestamps, call.now - RATE_WINDOW_MS)
         allowed == Len(valid) < libCall.limit
     IN libCall' = [libCall EXCEPT
                      !.checks[c] = [IdleCheck EXCEPT !.now = call.now,
                                                      !.allowed = allowed],
                      !.storage = IF allowed THEN Append(valid, call.now) ELSE @,
                      !.allowedAt = IF allowed THEN Append(@, call.now) ELSE @]
  /\ UNCHANGED appVars

NextLimiter ==
  \/ LimiterCreate
  \/ \E c \in CheckCalls : CheckStart(c)
  \/ \E c \in CheckCalls : CheckSettle(c)
  \/ Tick(PrepMaxTime)

SpecLimiter == Init /\ [][NextLimiter]_vars

NextBuild == AddFeeCall \/ BuildSponsoredCall

SpecBuild == Init /\ [][NextBuild]_vars

(***************************************************************************)
(* Claims                                                                  *)
(***************************************************************************)
\* fee (micro-USD) / 1e6 >= cost (lamports) / 1e9 * price * (1 + 15/100), as an
\* exact comparison of fee * 100000 with cost * price * 115 (split at 100000)
ExactlyCovers(feeMicroUsd, costLamports, price) ==
  LET mul == price * (100 + FEE_VOLATILITY_BUFFER_PCT)
      d == feeMicroUsd - (costLamports \div 100000) * mul
  IN /\ d >= 0
     /\ d >= mul \/ d * 100000 >= (costLamports % 100000) * mul

C1_Stored(pend) ==
  \A id \in DOMAIN pend :
    pend[id].userFeeToken = "USDC" =>
      /\ pend[id].refPrice # 0
      /\ ExactlyCovers(pend[id].userFeeAmount, pend[id].sponsorCostsSol,
                       pend[id].refPrice)

C2_ExecuteExactlyOnce ==
  /\ \A id \in SwapIds :
       /\ Cardinality({c \in Calls : exec[c].id = id /\ exec[c].created}) <= 1
       /\ submissions[id] <= 1
  /\ \A c1, c2 \in Calls :
       (/\ c1 < c2
        /\ exec[c1].pc # "idle"
        /\ exec[c2].pc = "done"
        /\ exec[c1].id = exec[c2].id
        /\ exec[c2].id \in SwapIds)
       => exec[c2].result = "NotFoundError"

\* C3: prepareSwap never creates or updates a durable record; a durable record
\* appears only in an executeSwap call on that id that found a pending entry
\* whose expiry had not passed.
C3_DurableOnlyAfterExecute ==
  [][/\ prep' # prep => db' = db
     /\ \A id \in DOMAIN db' \ DOMAIN db :
          \E c \in Calls :
            /\ exec[c].pc = "create"
            /\ exec[c].id = id
            /\ exec[c].found
            /\ exec'[c].created]_vars

C3_Witness ==
  \E id \in DOMAIN db : \E c \in Calls : exec[c].id = id /\ exec[c].created

\* what validateNoFundLeak must have accepted, stated on the decoded message
AcceptableForSponsor(tx) ==
  /\ tx.decodes
  /\ Len(tx.staticAccounts) >= 1
  /\ tx.staticAccounts[1] = SPONSOR
  /\ Len(tx.instructions) >= 2
  /\ AccountAt(tx, tx.instructions[1]) \in FeePrograms

\* C4: a transaction is submitted only once the durable record of its swap id
\* exists, and in sponsored mode only if validateNoFundLeak accepted the
\* signed bytes against the sponsor; a rejected transaction creates no record
\* and submits nothing.
C4_SubmitAfterRecordAndValidation ==
  \A c \in Calls :
    /\ exec[c].sent =>
         /\ exec[c].created
         /\ Has(db, exec[c].id)
         /\ exec[c].feeToken # "SOL" => AcceptableForSponsor(exec[c].tx)
    /\ (/\ exec[c].pc # "idle"
        /\ exec[c].feeToken = "USDC"
        /\ ~AcceptableForSponsor(exec[c].tx))
       => /\ ~exec[c].created
          /\ ~exec[c].sent
          /\ exec[c].result = "failed"

C4_Witness ==
  /\ \E c \in Calls :
       exec[c].sent /\ exec[c].feeToken = "USDC" /\ exec[c].result = "submitted"
  /\ \E c \in Calls :
       /\ exec[c].feeToken = "USDC" /\ exec[c].result = "failed"
       /\ ~AcceptableForSponsor(exec[c].tx)

StatusRank(status) ==
  CASE status = "SUBMITTED" -> 1
    [] status = "BRIDGING" -> 2
    [] status = "COMPLETED" -> 3
    [] status = "FAILED" -> 3

\* C5: the durable status only moves forward along submitted -> bridging ->
\* completed, or to failed, and a completed or failed record keeps its status.
C5_StatusMonotonic ==
  [][\A id \in DOMAIN db :
       /\ id \in DOMAIN db'
       /\ StatusRank(db'[id].status) >= StatusRank(db[id].status)
       /\ db[id].status \in {"COMPLETED", "FAILED"}
            => db'[id].status = db[id].status]_vars

\* C6: a monitor polls the provider's status at most MONITOR_MAX_ATTEMPTS
\* times (attempts counts the getStatus calls) and has stopped once the
\* budget is used up and no poll is outstanding.
C6_BoundedPolling ==
  \A m \in 1..Len(monitors) :
    /\ monitors[m].attempts <= MONITOR_MAX_ATTEMPTS
    /\ (monitors[m].attempts >= MONITOR_MAX_ATTEMPTS /\ PollsOf(m) = {})
         => ~monitors[m].live

\* C7: each swap id has at most one live monitoring task, and the handle the
\* active-monitor map holds for an id is that task's.
C7_OneMonitorPerSwap ==
  \A id \in SwapIds :
    LET live == {m \in 1..Len(monitors) :
                   monitors[m].swapId = id /\ monitors[m].live}
    IN /\ Cardinality(live) <= 1
       /\ activeMonitors[id] # 0 => activeMonitors[id] \in live
       /\ live # {} => activeMonitors[id] \in live

\* C7 witness: a monitor is live and polling for an id on which a second,
\* overlapping executeSwap call has finished too
C7_Witness ==
  \E id \in SwapIds :
    /\ activeMonitors[id] # 0
    /\ monitors[activeMonitors[id]].attempts > 0
    /\ \E c \in Calls :
         /\ exec[c].id = id /\ exec[c].pc = "done"
         /\ exec[c].found /\ ~exec[c].expired /\ exec[c].result # "submitted"

EntryMissing(c) == exec[c].pc # "idle" /\ ~exec[c].found /\ ~exec[c].expired

\* C8 (as stated): executeSwap on an id whose pending entry is missing or has
\* expired fails with a not-found (404) error.
C8_MissingOrExpired404 ==
  \A c \in Calls :
    (exec[c].pc = "done" /\ (EntryMissing(c) \/ exec[c].expired))
      => exec[c].result = "NotFoundError" /\ StatusCode(exec[c].result) = 404

\* C8 (amended): a missing entry gives NotFoundError (404); an entry that is
\* present but expired is removed and gives QuoteExpiredError (400).
C8_Missing404Expired400 ==
  \A c \in Calls :
    /\ EntryMissing(c)
         => exec[c].result = "NotFoundError" /\ StatusCode(exec[c].result) = 404
    /\ exec[c].expired
         => /\ exec[c].pc = "done"
            /\ exec[c].result = "QuoteExpiredError"
            /\ StatusCode(exec[c].result) = 400
            /\ ~Has(pendingSwaps, exec[c].id)
            /\ ~exec[c].created

C8_Witness ==
  /\ \E c \in Calls : exec[c].expired
  /\ \E c \in Calls : EntryMissing(c) /\ exec[c].id \in SwapIds

\* C9: getAggregatedQuotes returns a result exactly when at least one provider
\* returned a quote, whatever the other providers' probes and getQuote calls did;
\* it fails only when none did.
C9_ResultIffSomeQuote ==
  agg.pc = "done"
    => (agg.result.ok <=> \E n \in DOMAIN agg.quoted : agg.quoted[n] = "ok")

\* C9 witness: a result is returned although one provider's getQuote threw and
\* the provider that returned the quote had thrown on the route probe
C9_Witness ==
  /\ agg.pc = "done"
  /\ agg.result.ok
  /\ \E n \in DOMAIN agg.quoted : agg.quoted[n] = "threw"
  /\ \E n \in DOMAIN agg.quoted :
       agg.probe[n] = "threw" /\ agg.quoted[n] = "ok"

\* C10: a returned result's providerResults holds exactly one record for every
\* provider registered at the call: no_route when supportsRoute returned false,
\* otherwise success or error by its getQuote; a provider whose probe threw
\* was queried.
C10_OneRecordPerProvider ==
  (agg.pc = "done" /\ agg.result.ok) =>
    LET rs == agg.result.providerResults
        Of(n) == {i \in 1..Len(rs) : rs[i].provider = n}
    IN /\ Len(rs) = Len(agg.snapshot)
       /\ \A n \in Range(agg.snapshot) :
            /\ Cardinality(Of(n)) = 1
            /\ \A i \in Of(n) :
                 rs[i].status =
                   CASE agg.probe[n] = "no" -> "no_route"
                     [] agg.quoted[n] = "ok" -> "success"
                     [] agg.quoted[n] = "threw" -> "error"
                     [] OTHER -> "missing"
            /\ agg.probe[n] = "no" => agg.quoted[n] = "notcalled"
            /\ agg.probe[n] = "threw" => agg.quoted[n] \in {"ok", "threw"}

\* C10 witness: a result returned for three providers, one without a route, one
\* whose probe threw and whose getQuote threw too, one that answered
C10_Witness ==
  /\ agg.pc = "done"
  /\ agg.result.ok
  /\ \E n \in DOMAIN agg.probe : agg.probe[n] = "no"
  /\ \E n \in DOMAIN agg.probe :
       agg.probe[n] = "threw" /\ agg.quoted[n] = "threw"
  /\ Len(agg.result.providerResults) = 3

\* position of a quote's provider in the registration order of the call
ProviderPos(quotes, provider) ==
  CHOOSE i \in 1..Len(quotes) : quotes[i].provider = provider

\* destAmount - route.totalFees as an exact integer
ExactNet(quote) == BigSub(quote.destAmount, quote.totalFees)

\* C11: the returned quotes are the collected ones in descending order of net
\* amount, equal nets in registration order, and bestQuote is the first.
C11_RankedByNet ==
  libCall.fn = "rankQuotes" =>
    LET in == libCall.quotes
        out == libCall.result.quotes
    IN /\ Len(out) = Len(in)
       /\ Range(out) = Range(in)
       /\ libCall.result.bestQuote = out[1]
       /\ \A i, j \in 1..Len(out) :
            i < j =>
              LET c == BigCmp(ExactNet(out[i]), ExactNet(out[j]))
              IN /\ c >= 0
                 /\ c = 0 => ProviderPos(in, out[i].provider)
                               < ProviderPos(in, out[j].provider)

\* the score 0.7 * net / best net + 0.3 * (1 - duration / max duration) as an
\* exact integer: multiplied by 10 * best net * max duration
ExactScore(quote, quotes) ==
  LET nets == {ExactNet(quotes[i]) : i \in 1..Len(quotes)}
      bestNet == CHOOSE n \in nets : \A m \in nets : BigCmp(m, n) <= 0
      maxDuration == MaxDuration(quotes)
  IN BigAdd(BigMulSmall(BigMulSmall(ExactNet(quote), 7), maxDuration),
            BigMulSmall(bestNet, 3 * (maxDuration - quote.estimatedDuration)))

\* C12: recommendedQuote is a returned quote of maximal score, the first in
\* rank order among those of maximal score; a single quote is recommended.
C12_RecommendedIsBestScore ==
  libCall.fn = "rankQuotes" =>
    LET out == libCall.result.quotes
        rec == libCall.result.recommendedQuote
        maximal == {i \in 1..Len(out) :
                      \A j \in 1..Len(out) :
                        BigCmp(ExactScore(out[j], out), ExactScore(out[i], out)) <= 0}
    IN /\ rec \in Range(out)
       /\ \E i \in maximal : out[i] = rec /\ \A j \in maximal : i <= j
       /\ Len(out) = 1 => rec = out[1]

\* C13: validateNoFundLeak reports valid exactly when the bytes decode, there
\* are at least two instructions, the first instruction's program is System,
\* Token, Token-2022 or Associated-Token, and a supplied sponsor address is
\* static account 0; undecodable bytes give an invalid result with an error.
C13_ValidIffShapeOk ==
  libCall.fn = "validateNoFundLeak" =>
    LET tx == libCall.tx
        shapeOk ==
          /\ tx.decodes
          /\ Len(tx.instructions) >= 2
          /\ AccountAt(tx, tx.instructions[1])
               \in {"SystemProgram", "TokenProgram", "Token2022Program",
                    "AssociatedTokenProgram"}
          /\ libCall.sponsorAddress # None
               => AccountAt(tx, 0) = libCall.sponsorAddress
    IN /\ libCall.result.isValid <=> shapeOk
       /\ libCall.result.isValid <=> libCall.result.errors = {}
       /\ ~tx.decodes => ~libCall.result.isValid /\ libCall.result.errors # {}

\* C13 witness: a transaction with the sponsor as fee payer whose first
\* instruction creates the associated token account is reported valid
C13_Witness ==
  /\ libCall.fn = "validateNoFundLeak"
  /\ libCall.sponsorAddress = SPONSOR
  /\ libCall.result.isValid
  /\ AccountAt(libCall.tx, libCall.tx.instructions[1])
       = ASSOCIATED_TOKEN_PROGRAM_ADDRESS

\* C14: a transaction returned by addFeeTransferToTransaction or
\* buildSponsoredTransaction has the sponsor at account index 0 and its
\* instructions in the order optional advance, fee instructions, bridge
\* instructions in their original order; its first instruction targets a
\* fee-transfer-capable program.
C14_SponsorFirstFeeFirst ==
  (libCall.fn \in {"addFeeTransferToTransaction", "buildSponsoredTransaction"}
     /\ ~libCall.threw) =>
    LET advance ==
          IF libCall.solAdvanceLamports > 0 THEN <<"SystemProgram">> ELSE <<>>
        fee ==
          IF libCall.feeToken = "SOL" THEN <<"SystemProgram">>
          ELSE <<"AssociatedTokenProgram", "TokenProgram">>
        built == libCall.result
    IN /\ built.decodes
       /\ AccountAt(built, 0) = "sponsor"
       /\ DecompiledPrograms(built) = advance \o fee \o libCall.bridgeInstructions
       /\ AccountAt(built, built.instructions[1])
            \in {"SystemProgram", "TokenProgram", "Token2022Program",
                 "AssociatedTokenProgram"}

\* C14 witness: a provider transaction with two different bridge instructions
\* was rebuilt with an advance and a USDC fee
C14_Witness ==
  /\ libCall.fn = "addFeeTransferToTransaction"
  /\ ~libCall.threw
  /\ libCall.solAdvanceLamports > 0
  /\ libCall.feeToken = "USDC"
  /\ Len(libCall.bridgeInstructions) >= 2
  /\ libCall.bridgeInstructions[1] # libCall.bridgeInstructions[2]
  /\ Len(libCall.result.instructions) = Len(libCall.bridgeInstructions) + 3

\* C15: replaceBlockhash returns bytes of the same length that differ from the
\* input only inside the 32-byte blockhash field (the input itself when the
\* fresh blockhash equals the old one), or fails with an error when the bytes
\* at the computed offset differ from the decoded old blockhash; no other byte
\* changes and the input array is left as it was.
C15_OnlyBlockhashBytesChange ==
  libCall.fn = "replaceBlockhash" =>
    LET txBytes == libCall.txBytes
        out == libCall.outcome
        old == bs58Decode(libCall.decoded.lifetimeToken)
        fresh == bs58Decode(libCall.blockhash)
        offset == blockhashOffset(txBytes, libCall.decoded.numSigs,
                                  libCall.decoded.numAccounts)
        atOffset == Slice(txBytes, offset, offset + 32)
    IN /\ out.input = txBytes
       /\ libCall.decoded.lifetimeToken = libCall.blockhash
            => ~out.threw /\ out.result = txBytes
       /\ out.threw <=>
            (libCall.decoded.lifetimeToken # libCall.blockhash /\ atOffset # old)
       /\ ~out.threw =>
            /\ Len(out.result) = Len(txBytes)
            /\ \A i \in 1..Len(txBytes) :
                 out.result[i] # txBytes[i] =>
                   /\ i - offset \in 1..32
                   /\ txBytes[i] = old[i - offset]
                   /\ out.result[i] = fresh[i - offset]
       /\ libCall.decoded = DecodeWire(libCall.fields) =>
            /\ ~out.threw
            /\ out.result =
                 EncodeWire([libCall.fields EXCEPT !.blockhash = libCall.blockhash])

\* C15 witness: both outcomes of a call with a different fresh blockhash occur;
\* this one is the replacement in a v0 transaction with two signature slots
C15_Witness ==
  /\ libCall.fn = "replaceBlockhash"
  /\ ~libCall.outcome.threw
  /\ libCall.fields.isV0
  /\ libCall.fields.numSigs = 2
  /\ libCall.outcome.result # libCall.txBytes

\* the exact required cost, times 10^6 * scale: cost * (100 + buffer) *
\* (10000 + platformFeeBps) * rate, for a fee of units / scale (rate converts
\* lamports into the denomination's units: 1 for SOL, price / 1000 for USDC)
ExactCostScaled(cost, rateNum) ==
  BigMulSmall(
    BigMulSmall(BigMulSmall(BigFromInt(cost), 100 + FEE_VOLATILITY_BUFFER_PCT),
                10000 + PLATFORM_FEE_BPS),
    rateNum)

UnitsScaled(units, rateDen) ==
  BigMulSmall(BigMulSmall(BigMulSmall(units, 100), 10000), rateDen)

\* fee units are not below the exact cost and exceed it by less than one unit
RoundedUpExactly(units, cost, rateNum, rateDen) ==
  /\ BigCmp(UnitsScaled(units, rateDen), ExactCostScaled(cost, rateNum)) >= 0
  /\ BigCmp(UnitsScaled(BigSub(units, <<1>>), rateDen),
            ExactCostScaled(cost, rateNum)) < 0

\* C16: feeInUsdc and feeInSol are the exact value cost * (1 + buffer) *
\* (1 + platformFeeBps / 10000) rounded up to 6 and 9 decimals: never below
\* it, above it by less than one smallest unit; the token units in the fee
\* transfer instruction are never below the fee.
C16_FeesRoundedUpToUnit ==
  libCall.fn = "calculateMinimumFee" =>
    /\ RoundedUpExactly(libCall.fee.feeInSol, libCall.totalSponsorCost, 1, 1)
    /\ RoundedUpExactly(libCall.fee.feeInUsdc, libCall.totalSponsorCost,
                        libCall.solPriceUsd, 1000)
    /\ BigCmp(libCall.lamports, libCall.fee.feeInSol) >= 0
    /\ BigCmp(libCall.usdcAmount, libCall.fee.feeInUsdc) >= 0

\* C18: validateTransactionStructure rejects every list of fewer than two
\* instructions, and accepts a list of two or more exactly when its first
\* instruction targets the System, Token, Token-2022 or Associated-Token
\* program.
C18_StructureAcceptsFeePrograms ==
  libCall.fn = "validateTransactionStructure" =>
    LET tx == libCall.tx
    IN /\ Len(tx.instructions) < 2 => ~libCall.result.valid
       /\ Len(tx.instructions) >= 2 =>
            (libCall.result.valid <=>
               AccountAt(tx, tx.instructions[1])
                 \in {"SystemProgram", "TokenProgram", "Token2022Program",
                      "AssociatedTokenProgram"})

\* |fresh - quoted| * 100 compared with threshold% * quoted, exactly
DriftExceeds(quoted, fresh) ==
  BigCmp(BigMulSmall(IF BigCmp(fresh, quoted) >= 0 THEN BigSub(fresh, quoted)
                     ELSE BigSub(quoted, fresh), 100),
         BigMulSmall(quoted, 2)) > 0

\* C17: when the re-quote was obtained, prepareSwap rejects exactly when the
\* re-quoted destination amount differs from the quoted one by more than 2% of
\* the quoted amount; quoted 1000: 970 is rejected and 985 accepted.
C17_RejectsIffDriftAboveThreshold ==
  (libCall.fn = "validateQuote" /\ ~libCall.expired /\ libCall.requoteOk) =>
    (libCall.proceeds <=>
       ~DriftExceeds(libCall.quote.destAmount, libCall.quote.freshDestAmount))

C20_FailedRefreshServesCache ==
  [][(/\ libCall.fn = "getSolPrice"
      /\ libCall.pc = "fetching"
      /\ libCall'.pc = "done"
      /\ libCall'.refreshFailed)
       => /\ priceCache' = priceCache
          /\ IF libCall.cached.price # 0
             THEN ~libCall'.threw /\ libCall'.price = libCall.cached.price
             ELSE libCall'.threw]_vars

\* C20 witness: a lookup whose refresh failed returned a cache entry that was
\* older than the time to live
C20_Witness ==
  /\ libCall.fn = "getSolPrice"
  /\ libCall.pc = "done"
  /\ libCall.refreshFailed
  /\ ~libCall.threw
  /\ libCall.price = libCall.cached.price
  /\ (now - libCall.cached.timestamp) * 1000 >= PRICE_CACHE_TTL

\* C21: among callers that find the cached price missing or stale at the same
\* time, at most one oracle fetch is in flight, and callers whose waits
\* overlapped all get the same outcome.
C21_OneSharedFetch ==
  /\ Cardinality(FetchesInFlight) <= 1
  /\ \A c, d \in PriceCallers :
       (/\ Lookups[c].pc = "done" /\ Lookups[c].overlapped
        /\ Lookups[d].pc = "done" /\ Lookups[d].overlapped)
         => /\ Lookups[c].price = Lookups[d].price
            /\ Lookups[c].threw = Lookups[d].threw

\* C22: while prepareSwap awaits provider.buildTransaction, the provider's
\* transaction-building request is issued at most once: a failed attempt is
\* not followed by another one.
C22_BuildRequestedOnce ==
  (libCall.fn = "retryWithBackoff" /\ libCall.op = "DeBridge.buildTransaction")
    => libCall.invocations <= 1

\* the outcome of the latest attempt of a retryWithBackoff call
LastOutcome(call) ==
  IF call.outcomes = <<>> THEN NoError ELSE call.outcomes[Len(call.outcomes)]

\* every attempt so far failed with an error shouldRetry accepts
AllRetryableFailures(call) ==
  \A i \in 1..Len(call.outcomes) :
    /\ call.outcomes[i] # Returned
    /\ shouldRetry(call.shouldRetry, call.outcomes[i], i)

\* C28: retryWithBackoff invokes fn at most maxAttempts times; it returns the
\* value of the first attempt that succeeds and invokes fn no more; and when
\* all attempts fail with errors shouldRetry accepts it throws
\* MaxRetriesExceededError with attempts = maxAttempts and the last error.
C28_BoundedAttempts ==
  libCall.fn = "retryWithBackoff" =>
    /\ libCall.invocations <= libCall.maxAttempts
    /\ \A i \in 1..Len(libCall.outcomes) :
         libCall.outcomes[i] = Returned
           => /\ i = Len(libCall.outcomes)
              /\ libCall.pc = "returned"
              /\ libCall.result = i
              /\ libCall.invocations = i
    /\ (libCall.pc \in {"returned", "threw"} /\ AllRetryableFailures(libCall))
         => /\ libCall.pc = "threw"
            /\ libCall.invocations = libCall.maxAttempts
            /\ libCall.error
                 = MaxRetriesExceededError(libCall.maxAttempts, LastOutcome(libCall))

\* C28 witness: three attempts were allowed, all three failed with retryable
\* errors, and MaxRetriesExceededError was thrown
C28_Witness ==
  /\ libCall.fn = "retryWithBackoff"
  /\ libCall.pc = "threw"
  /\ libCall.maxAttempts = 3
  /\ libCall.invocations = 3
  /\ AllRetryableFailures(libCall)
  /\ libCall.error.name = "MaxRetriesExceededError"
  /\ libCall.error.lastError = libCall.outcomes[3]

\* C29: when shouldRetry rejects the error of an attempt, that error is thrown
\* at once: no further attempt, no onRetry call for it, and no
\* MaxRetriesExceededError, on the last allowed attempt too.
C29_RejectedErrorRethrown ==
  (/\ libCall.fn = "retryWithBackoff"
   /\ LastOutcome(libCall) \notin {NoError, Returned}
   /\ ~shouldRetry(libCall.shouldRetry, LastOutcome(libCall), Len(libCall.outcomes)))
    => /\ libCall.pc = "threw"
       /\ libCall.error = LastOutcome(libCall)
       /\ libCall.invocations = Len(libCall.outcomes)
       /\ Len(libCall.onRetry) = Len(libCall.outcomes) - 1
       /\ \A i \in 1..Len(libCall.onRetry) :
            libCall.onRetry[i] = [error |-> libCall.outcomes[i], attempt |-> i]

\* C29 witness: the second of two allowed attempts failed with an error that
\* isRetryableError rejects, after a first one it accepted
C29_Witness ==
  /\ libCall.fn = "retryWithBackoff"
  /\ libCall.shouldRetry = "isRetryableError"
  /\ libCall.maxAttempts = 2
  /\ Len(libCall.outcomes) = 2
  /\ libCall.outcomes[2] # Returned
  /\ isRetryableError(libCall.outcomes[1])
  /\ ~isRetryableError(libCall.outcomes[2])
  /\ libCall.error = libCall.outcomes[2]

\* C23: a prepareSwap call that stored a pending entry and returned its
\* transaction built one of at most 1232 bytes.
C23_PreparedWithinSizeLimit ==
  prep.result = "prepared" => prep.txSize <= MAX_TRANSACTION_SIZE

\* the message and the code in what an orchestrator method threw or returned
VisibleMessage(outcome) ==
  IF outcome.threw THEN outcome.error.message ELSE outcome.result.error

VisibleCode(outcome) ==
  IF outcome.threw THEN outcome.error.errorCode ELSE None

\* C24: when the error behind a failure is not an AppError, what the caller of
\* prepareSwap or executeSwap gets, and what the route answers, does not carry
\* that error's message and does carry a machine-readable code.
C24_InternalMessageNeverShown ==
  (libCall.fn = "failure" /\ ~InstanceOfAppError(libCall.thrown)) =>
    /\ (libCall.pc \in {"handled", "responded"} /\ libCall.site # "route")
         => /\ VisibleMessage(libCall.outcome) # libCall.thrown.message
            /\ VisibleCode(libCall.outcome) # None
    /\ libCall.pc = "responded"
         => /\ libCall.response.error # libCall.thrown.message
            /\ libCall.response.errorCode # None

\* C25: a status query for an unknown id fails with not-found; for a row it
\* found SUBMITTED or BRIDGING with no active monitor (the provider being
\* registered) it returns the status the provider reports, terminal ones
\* included, and the row's status when the provider call fails.
C25_StatusFromProviderOrRow ==
  (libCall.fn = "getSwapStatus" /\ libCall.pc = "done") =>
    /\ libCall.swap = NoRow => libCall.threw = "NotFoundError"
    /\ (/\ libCall.swap.status \in {"SUBMITTED", "BRIDGING"}
        /\ ~libCall.monitored
        /\ libCall.registered)
         => /\ libCall.threw = None
            /\ libCall.providerStatus \in ProviderStatuses \cup {"throws"}
            /\ libCall.providerStatus \in ProviderStatuses
                 => libCall.status = libCall.providerStatus
            /\ libCall.providerStatus = "throws"
                 => libCall.status = StatusToLowerCase(libCall.swap.status)

\* C25 witness: the row was BRIDGING, its monitor was gone, the provider
\* reported completed and so did the query
C25_Witness ==
  /\ libCall.fn = "getSwapStatus"
  /\ libCall.pc = "done"
  /\ libCall.swap.status = "BRIDGING"
  /\ ~libCall.monitored
  /\ libCall.providerStatus = "completed"
  /\ libCall.status = "completed"

\* C26: a stopMonitoring(id) call aborts the session registered for id and
\* removes its entry, leaves the session and the entry of every other swap id
\* as they were, and changes nothing at all when id has no entry.
C26_StopTouchesOnlyItsMonitor ==
  [][(libCall' # libCall /\ libCall'.fn = "stopMonitoring") =>
       /\ Len(monitors') = Len(monitors)
       /\ \A other \in SwapIds \ {libCall'.id} :
            activeMonitors'[other] = activeMonitors[other]
       /\ \A m \in 1..Len(monitors) :
            monitors[m].swapId # libCall'.id => monitors'[m] = monitors[m]
       /\ HasController(libCall'.id)
            => /\ activeMonitors'[libCall'.id] = 0
               /\ monitors'[activeMonitors[libCall'.id]].aborted
       /\ ~HasController(libCall'.id)
            => UNCHANGED <<monitors, activeMonitors, polls, db, pendingSwaps>>]_vars

\* C26 witness: the monitor of swap 1 was stopped and the monitor of swap 2 is
\* still registered and running
C26_Witness ==
  /\ libCall.fn = "stopMonitoring"
  /\ libCall.id = 1
  /\ activeMonitors[1] = 0
  /\ \E m \in 1..Len(monitors) : monitors[m].swapId = 1 /\ monitors[m].aborted
  /\ activeMonitors[2] # 0
  /\ monitors[activeMonitors[2]].live
  /\ ~monitors[activeMonitors[2]].aborted

\* C27: whatever getSwapOrchestrator and initializeApp calls are made, one
\* SwapOrchestrator is constructed, and every getSwapOrchestrator call made
\* after the swap was prepared returns the instance whose pending cache has it.
C27_OneOrchestratorKept ==
  /\ Process.constructed <= 1
  /\ \A r \in Requests :
       (/\ Process.requests[r].pc = "done"
        /\ Process.requests[r].op = "getSwapOrchestrator"
        /\ Process.requests[r].afterPrepare)
         => Process.requests[r].got = Process.preparedOn

\* C30: when a call through a CLOSED breaker completes, the breaker is OPEN
\* afterwards exactly if the call failed and it was the failureThreshold-th
\* failure completed since the last success (or reset); a success leaves the
\* failure count at 0; and with fewer such failures the breaker is still
\* CLOSED.
C30_OpensAtThreshold ==
  (/\ libCall.fn = "CircuitBreaker"
   /\ libCall.prevState = "CLOSED"
   /\ libCall.event \in {"success", "failure"})
  => /\ (libCall.state = "OPEN") <=>
          (libCall.event = "failure" /\ libCall.streak = libCall.failureThreshold)
     /\ libCall.event = "success" => libCall.failureCount = 0
     /\ libCall.streak <= libCall.failureThreshold
     /\ libCall.streak < libCall.failureThreshold => libCall.state = "CLOSED"

C30_Witness ==
  /\ libCall.fn = "CircuitBreaker"
  /\ libCall.prevState = "CLOSED"
  /\ libCall.event = "failure"
  /\ libCall.state = "OPEN"
  /\ libCall.failureThreshold = MaxFailureThreshold
  /\ libCall.streak = MaxFailureThreshold
  /\ libCall.nextAttemptTime > BREAKER_TIMEOUT

\* C31: an execute() call on a breaker that is OPEN before its next-attempt
\* time is rejected: the function is not invoked (no call is added to those
\* in flight) and state, failureCount, successCount and nextAttemptTime are
\* what they were.
C31_RejectionChangesNothing ==
  [][(ExecuteStart /\ libCall.state = "OPEN" /\ DateNow < libCall.nextAttemptTime)
     => /\ libCall'.event = "rejected"
        /\ libCall'.inFlight = libCall.inFlight
        /\ libCall'.state = libCall.state
        /\ libCall'.failureCount = libCall.failureCount
        /\ libCall'.successCount = libCall.successCount
        /\ libCall'.nextAttemptTime = libCall.nextAttemptTime]_vars

C31_Witness ==
  /\ libCall.fn = "CircuitBreaker"
  /\ libCall.event = "rejected"
  /\ libCall.state = "OPEN"
  /\ libCall.failureCount = libCall.failureThreshold
  /\ libCall.inFlight > 0
  /\ DateNow > 0 /\ DateNow < libCall.nextAttemptTime

\* C32: an execute() call on an OPEN breaker whose next-attempt time has come
\* moves it to HALF_OPEN and invokes the function; a call completing on a
\* HALF_OPEN breaker leaves it CLOSED exactly if it succeeded and was the
\* successThreshold-th success seen in HALF_OPEN with no failure in between,
\* and a success short of that leaves it HALF_OPEN.
C32_HalfOpenUntilEnoughSuccesses ==
  /\ [][(ExecuteStart /\ libCall.state = "OPEN" /\ DateNow >= libCall.nextAttemptTime)
        => /\ libCall'.state = "HALF_OPEN"
           /\ libCall'.event = "started"
           /\ libCall'.inFlight = libCall.inFlight + 1]_vars
  /\ []((/\ libCall.fn = "CircuitBreaker"
         /\ libCall.prevState = "HALF_OPEN"
         /\ libCall.event \in {"success", "failure"})
        => /\ (libCall.state = "CLOSED") <=>
                (/\ libCall.event = "success"
                 /\ libCall.halfOpenSuccesses = libCall.successThreshold)
           /\ libCall.halfOpenSuccesses <= libCall.successThreshold
           /\ libCall.event = "success" => libCall.state \in {"CLOSED", "HALF_OPEN"})

C32_Witness ==
  /\ libCall.fn = "CircuitBreaker"
  /\ libCall.prevState = "HALF_OPEN"
  /\ libCall.event = "success"
  /\ libCall.state = "CLOSED"
  /\ libCall.successThreshold = MaxSuccessThreshold
  /\ libCall.halfOpenSuccesses = MaxSuccessThreshold

\* C33: a call failing on a HALF_OPEN breaker leaves it OPEN, whatever the
\* failure count, with the next-attempt time one timeout after that moment.
C33_HalfOpenFailureReopens ==
  [][(ExecuteSettle /\ libCall.state = "HALF_OPEN" /\ libCall'.event = "failure")
     => /\ libCall'.state = "OPEN"
        /\ libCall'.nextAttemptTime = DateNow + BREAKER_TIMEOUT]_vars

C33_Witness ==
  /\ libCall.fn = "CircuitBreaker"
  /\ libCall.prevState = "HALF_OPEN"
  /\ libCall.event = "failure"
  /\ libCall.state = "OPEN"
  /\ libCall.failureCount < libCall.failureThreshold
  /\ libCall.nextAttemptTime >= 2 * BREAKER_TIMEOUT

\* C40: successCount is 0 whenever the breaker is not HALF_OPEN.
C40_SuccessCountZeroOutsideHalfOpen ==
  (libCall.fn = "CircuitBreaker" /\ libCall.state # "HALF_OPEN")
  => libCall.successCount = 0

\* C34: an executeSwap call that finds its pending entry past validUntil
\* creates no durable record, submits nothing and ends with the entry gone
\* from the pending cache; and the first step of every prepareSwap call
\* leaves in the pending cache exactly the entries that were there and are
\* not past their validUntil.
C34_ExpiredEntriesDropped ==
  /\ [](\A c \in Calls :
          exec[c].expired =>
            /\ exec[c].pc = "done"
            /\ exec[c].result = "QuoteExpiredError"
            /\ ~exec[c].created
            /\ ~exec[c].sent
            /\ ~Has(pendingSwaps, exec[c].id))
  /\ [][PrepareStart(FreshQuotes) =>
          /\ \A id \in DOMAIN pendingSwaps' :
               /\ Has(pendingSwaps, id)
               /\ pendingSwaps'[id] = pendingSwaps[id]
               /\ now <= pendingSwaps'[id].validUntil
          /\ \A id \in DOMAIN pendingSwaps :
               now <= pendingSwaps[id].validUntil => Has(pendingSwaps', id)]_vars

\* an entry swept by a later prepareSwap (no executeSwap call named it), and
\* an executeSwap call that found another entry expired
C34_Witness ==
  /\ \E id \in SwapIds :
       /\ id < nextId
       /\ ~Has(pendingSwaps, id)
       /\ \A c \in Calls : exec[c].id # id
  /\ \E c \in Calls :
       /\ exec[c].expired
       /\ exec[c].result = "QuoteExpiredError"
       /\ ~Has(db, exec[c].id)
       /\ submissions[exec[c].id] = 0

MonitorStartedFor(id) == \E m \in 1..Len(monitors) : monitors[m].swapId = id

C38_ConfirmedOnChainIsSubmitted ==
  \A c \in Calls :
    (exec[c].pc = "done" /\ exec[c].sent) =>
      /\ exec[c].landed =>
           /\ exec[c].result = "submitted"
           /\ db[exec[c].id].solanaSignature
           /\ MonitorStartedFor(exec[c].id)
      /\ exec[c].result = "failed" => ~exec[c].landed

\* C36: once a monitor has stopped, no step starts a provider status call
\* for it and no step has it call swapRepository.updateStatus, polls that
\* were awaiting getStatus when it stopped included.
C36_StoppedMonitorIsSilent ==
  [][\A m \in 1..Len(monitors) :
       ~monitors[m].live =>
         \A p \in polls' : p.mon = m => p \in polls]_vars

PrepareFailures ==
  {"QuoteDriftError", "PriceOracleError", "EconomicValidationError",
   "TransactionValidationError", "INSUFFICIENT_BALANCE"}

\* C37: in prepareSwap the sponsor has signed only when the drift guard and
\* the guarantees guard were both passed before; a step that records a
\* pending entry (and returns the transaction) for a sponsored request does
\* so with sponsor-signed bytes that validateNoFundLeak accepted, and for a
\* SOL request with bytes the sponsor did not sign; and a step that ends the
\* call with a failure adds no entry to the pending cache.
C37_SignedAfterGuardsStoredAfterLeakCheck ==
  /\ [](prep.sponsorSigned => (prep.driftPassed /\ prep.guaranteesPassed))
  /\ []((prep.result = "prepared" /\ prep.sponsorSigned) => prep.leakAccepted)
  /\ [][(DOMAIN pendingSwaps' \ DOMAIN pendingSwaps # {}) =>
          /\ prep'.result = "prepared"
          /\ prep.driftPassed
          /\ prep.sponsorSigned => prep.leakAccepted
          /\ prep.feeToken = "SOL" => ~prep.sponsorSigned
          /\ prep.feeToken # "SOL" =>
               (prep.guaranteesPassed /\ prep.sponsorSigned)]_vars
  /\ [][(prep' # prep /\ prep'.result \in PrepareFailures) =>
          DOMAIN pendingSwaps' \subseteq DOMAIN pendingSwaps]_vars

C37_Witness ==
  /\ prep.result = "prepared"
  /\ prep.driftPassed /\ prep.guaranteesPassed
  /\ prep.sponsorSigned /\ prep.leakAccepted
  /\ Has(pendingSwaps, nextId - 1)
  /\ pendingSwaps[nextId - 1].userFeeToken = "USDC"

\* C39: for one client key, every window of windowMs ending at an allowed
\* request holds at most limit allowed requests, concurrent check calls
\* included.
C39_AtMostLimitPerWindow ==
  libCall.fn = "RateLimiter" =>
    \A i \in 1..Len(libCall.allowedAt) :
      Cardinality({j \in 1..Len(libCall.allowedAt) :
                     /\ libCall.allowedAt[j] > libCall.allowedAt[i] - RATE_WINDOW_MS
                     /\ libCall.allowedAt[j] <= libCall.allowedAt[i]})
        <= libCall.limit

====
